---- MODULE Spec2Model ----
(***************************************************************************)
(* Staged execution of a generated playbook: the buffered engine           *)
(* (Containers/agentd.py run_task) and the streamed engine                 *)
(* (Containers/runner_agentd.py run_task / stream_and_zip / runner_stream).*)
(* One workspace (run_<task_id>) that already holds a generated playbook;  *)
(* run requests arrive one after another on it.                            *)
(***************************************************************************)
EXTENDS Integers, Sequences, FiniteSets, TLC, Bags

\* ---------------------------------------------------------------- bounds
MaxRc == 2          \* external commands return a code in 0..MaxRc
MaxEvents == 2      \* runner events delivered by one phase of the stream
MaxChanged == 1     \* per-entry "changed" count in the runner statistics
MaxRuns == 1        \* run requests served on the workspace
MaxHosts == 2       \* entries of a host specification
MaxClock == 1       \* clock seconds that pass while generate requests are served
MaxChunks == 2      \* write() calls a file content is flushed in
MaxLines == 4       \* lines of a text the text functions are applied to
MaxZipCalls == 2    \* calls of zip_result on one workspace
MaxSessions == 2    \* rows of the sessions table
MaxRows == 2        \* rows of the command_logs table
MaxAttempts == 2    \* largest max_attempts PlaybookAgent.run_task is called with

\* ---------------------------------------------------------- value domains
None == "<None>"
NoResp == [none |-> TRUE]
ReturnCodes == 0..MaxRc
Phases == <<"syntax", "apply", "idempotency">>
VerifyLevels == {"none", "syntax", "all"}

Playbook == "project/playbook.yml"
InvPath == "inventory.ini"
BundlePath == "bundle.zip"

\* Python truthiness of an Optional[str] / Optional[dict] request field.
Truthy(x) == x # None /\ x # "" /\ x # "{}"

RECURSIVE SumValues(_, _)
SumValues(f, S) ==
  IF S = {} THEN 0
  ELSE LET h == CHOOSE x \in S : TRUE IN f[h] + SumValues(f, S \ {h})

\* runner_stream: changed = 0; int -> itself; dict -> sum(values()).
changed_count(stats) ==
  IF stats.kind = "int" THEN stats.changed
  ELSE IF stats.kind = "dict" THEN SumValues(stats.changed, DOMAIN stats.changed)
  ELSE 0

\* ------------------------------------------------------- command builders
\* run_task (buffered): base_cmd with the optional --limit/--tags/-e.
base_cmd(r) ==
  <<"ansible-playbook", Playbook, "-i", r.inv_path>>
    \o (IF Truthy(r.limit) THEN <<"--limit", r.limit>> ELSE <<>>)
    \o (IF Truthy(r.tags) THEN <<"--tags", r.tags>> ELSE <<>>)
    \o (IF Truthy(r.extra_vars) THEN <<"-e", "@extra_vars.json">> ELSE <<>>)

\* run_task (buffered): the argument vector handed to _run for a phase.
buffered_args(phase, r) ==
  IF phase = "syntax" THEN base_cmd(r) \o <<"--syntax-check">>
  ELSE IF phase = "apply" THEN base_cmd(r)
  ELSE base_cmd(r) \o <<"--check", "--diff">>

\* runner_stream: the cmdline handed to ansible_runner.run_async for a phase.
runner_cmdline(phase, r) ==
  IF phase = "syntax" THEN <<"--syntax-check">>
  ELSE IF phase = "apply"
    THEN (IF Truthy(r.limit) THEN <<"--limit", r.limit>> ELSE <<>>)
           \o (IF Truthy(r.tags) THEN <<"--tags", r.tags>> ELSE <<>>)
  ELSE <<"--check", "--diff">>

HasArg(args, a) == \E i \in 1..Len(args) : args[i] = a

\* What an invoked command does, read off its own flags.
PhaseOfCmd(c) ==
  IF HasArg(c.args, "--syntax-check") THEN "syntax"
  ELSE IF HasArg(c.args, "--check") THEN "idempotency"
  ELSE "apply"

\* The per-phase log file of the buffered engine.
logfile(phase) ==
  IF phase = "syntax" THEN "logs/01_syntax.log"
  ELSE IF phase = "apply" THEN "logs/02_apply.log"
  ELSE "logs/03_check_idempotency.log"

\* ------------------------------------------------------------ inventory
\* An entry of a host specification: a comma-separated field of the string
\* form, or an item of the list form (which may be something else than a
\* string).
NonStr == "<int>"

\* str.strip() on an entry.
strip(f) ==
  CASE f = " h1 " -> "h1"
    [] f = " " -> ""
    [] f = " from env " -> "from env"
    [] f = " from file " -> "from file"
    [] OTHER -> f

RECURSIVE SeqsUpTo(_, _)
SeqsUpTo(S, n) ==
  IF n = 0 THEN {<<>>}
  ELSE LET shorter == SeqsUpTo(S, n - 1)
       IN shorter \cup {Append(q, x) : q \in shorter, x \in S}

\* RunReq.inventory_file_content: absent, empty, or some inventory text.
InlineLines == <<<<"[db]">>, <<"db1">>>>
TruthyText(t) == t.given /\ t.lines # <<>>

ResolvedPath == "<resolved inv_spec>"

\* [h.strip() for h in inv_spec.split(",") if h.strip()]
\* [h.strip() for h in inv_spec if isinstance(h, str) and h.strip()]
RECURSIVE hosts_of(_)
hosts_of(entries) ==
  IF entries = <<>> THEN <<>>
  ELSE LET h == Head(entries)
       IN (IF h # NonStr /\ strip(h) # "" THEN <<strip(h)>> ELSE <<>>)
            \o hosts_of(Tail(entries))

entries_of(inv_spec) ==
  IF inv_spec.kind = "str" THEN inv_spec.fields ELSE inv_spec.items

\* "[all]\n" + lines_all + "\n\n[webserver]\n" + hosts + "\n", as lines of words;
\* a line of lines_all is
\* f"{h} ansible_user={user}" + (f" ansible_ssh_private_key_file={ssh_key}" ...)
inv_text(hosts, user, ssh_key) ==
  LET key == IF Truthy(ssh_key)
               THEN <<"ansible_ssh_private_key_file=", ssh_key>> ELSE <<>>
  IN <<<<"[all]">>>>
       \o [i \in 1..Len(hosts) |-> <<hosts[i], "ansible_user=", user>> \o key]
       \o <<<<>>, <<"[webserver]">>>>
       \o [i \in 1..Len(hosts) |-> <<hosts[i]>>]

\* Variant: the existing-path test comes before the literal text.
build_inventory_path_first(inv_spec, user, ssh_key, inline_text) ==
  IF inv_spec.kind = "str" /\ inv_spec.is_path
    THEN [ok |-> TRUE, path |-> ResolvedPath, written |-> FALSE]
  ELSE IF TruthyText(inline_text)
    THEN [ok |-> TRUE, path |-> InvPath, written |-> TRUE,
          text |-> inline_text.lines]
  ELSE LET hosts == hosts_of(entries_of(inv_spec))
       IN IF hosts = <<>>
            THEN [ok |-> FALSE, error |-> "inventory host list is empty"]
          ELSE [ok |-> TRUE, path |-> InvPath, written |-> TRUE,
                text |-> inv_text(hosts, user, ssh_key)]

\* build_inventory: the path it returns, whether it wrote inventory.ini and
\* with what text, or the ValueError it raises.
build_inventory(inv_spec, user, ssh_key, inline_text) ==
  IF TruthyText(inline_text)
    THEN [ok |-> TRUE, path |-> InvPath, written |-> TRUE,
          text |-> inline_text.lines]
  ELSE IF inv_spec.kind = "str" /\ inv_spec.is_path
    THEN [ok |-> TRUE, path |-> ResolvedPath, written |-> FALSE]
  ELSE LET hosts == hosts_of(entries_of(inv_spec))
       IN IF hosts = <<>>
            THEN [ok |-> FALSE, error |-> "inventory host list is empty"]
          ELSE [ok |-> TRUE, path |-> InvPath, written |-> TRUE,
                text |-> inv_text(hosts, user, ssh_key)]

\* Reading an INI inventory back: the first words of the non-blank lines
\* between the header of a group and the next header.
RECURSIVE group_hosts(_, _, _)
group_hosts(lines, header, inside) ==
  IF lines = <<>> THEN <<>>
  ELSE LET ln == Head(lines)
       IN IF ln \in {<<"[all]">>, <<"[webserver]">>, <<"[db]">>}
            THEN group_hosts(Tail(lines), header, ln = header)
          ELSE (IF inside /\ ln # <<>> THEN <<ln[1]>> ELSE <<>>)
                 \o group_hosts(Tail(lines), header, inside)

\* ------------------------------------------------------- generated text
\* A text is the sequence of its lines, a line its indentation and its body;
\* <fence> stands for the three backquotes of a code fence.
\* The final newline that strip() + "\n" leaves is not represented: the text
\* "\n" is the empty sequence.
Line(ind, body) == [ind |-> ind, body |-> body]

\* The lines the texts of the model are made of.
Lines ==
  [refusal |-> Line(0, "I cannot help with that request."),
   apology |-> Line(2, "Sorry, that is not possible."),
   remark |-> Line(0, "Note: set the hosts first."),
   fence_yaml |-> Line(0, "<fence>yaml"),
   fence |-> Line(0, "<fence>"),
   doc_start |-> Line(0, "---"),
   blank |-> Line(0, ""),
   play_name |-> Line(0, "- name: web"),
   play_hint |-> Line(0, "- name: web (nginx)"),
   play_become |-> Line(0, "- become: true"),
   hosts |-> Line(2, "hosts: all"),
   tasks |-> Line(2, "tasks: []")]

\* What the patterns of the code say about a line:
\*   fence    ^\s*(```|~~~) starts it
\*   close    it is a fence with nothing after it (\s*(```|~~~)\s*$)
\*   text     it is not empty
\*   doc      it holds "---"
\*   dropped  one of drop_patterns matches it
\*   kept     the conservative filter keeps it: empty, a key line, indented
line_is(l, kind) ==
  CASE kind = "fence" -> l.body \in {"<fence>yaml", "<fence>"}
    [] kind = "close" -> l.body = "<fence>"
    [] kind = "text" -> l.body # ""
    [] kind = "doc" -> l.body = "---"
    [] kind = "dropped" ->
         l.body \in {"Note: set the hosts first.", "<fence>yaml", "<fence>",
                     "- name: web (nginx)"}
    [] kind = "kept" ->
         \/ l.body \in {"", "- name: web", "- name: web (nginx)", "hosts: all",
                        "tasks: []"}
         \/ l.ind = 2

\* The first line of that kind after line i, 0 when there is none.
RECURSIVE first_after(_, _, _)
first_after(t, i, kind) ==
  IF i >= Len(t) THEN 0
  ELSE IF line_is(t[i + 1], kind) THEN i + 1
  ELSE first_after(t, i + 1, kind)

\* the key a "- key: value" line opens a list item with
item_key(l) ==
  IF l.body \in {"- name: web", "- name: web (nginx)"} THEN "name"
  ELSE IF l.body = "- become: true" THEN "become" ELSE None
\* the key of a "key: value" line
map_key(l) ==
  IF l.body = "hosts: all" THEN "hosts"
  ELSE IF l.body = "tasks: []" THEN "tasks" ELSE None

RECURSIVE lstrip_lines(_)
lstrip_lines(t) ==
  IF t = <<>> THEN <<>>
  ELSE IF Head(t).body = "" THEN lstrip_lines(Tail(t))
  ELSE <<Line(0, Head(t).body)>> \o Tail(t)

RECURSIVE rstrip_lines(_)
rstrip_lines(t) ==
  IF t = <<>> THEN <<>>
  ELSE IF t[Len(t)].body = "" THEN rstrip_lines(SubSeq(t, 1, Len(t) - 1))
  ELSE t

\* str.strip(): blank lines at both ends and the indentation of the first
\* line go.
strip_text(t) == lstrip_lines(rstrip_lines(t))

\* Where the block closes whose content starts after line i, k being the
\* first line after i that is not empty: at the first closing line after k,
\* or at k itself when nothing closes later and empty lines lie between i
\* and k (the greedy \s* of the pattern gives them back); 0 when neither.
block_to(t, i, k, close) ==
  IF k = 0 THEN 0
  ELSE IF first_after(t, k, close) # 0 THEN first_after(t, k, close)
  ELSE IF k > i + 1 /\ line_is(t[k], close) THEN k
  ELSE 0

\* The block opened by the fence at line f.  FENCE_ANY (strict) wants nothing
\* after the closing fence, FENCE_BLOCK takes any fence.  FENCE_ANY lets
\* white space and line ends stand between the fence and the language token,
\* and "---" is made of token characters: after a bare fence that line is
\* taken for the token when a block can still be closed behind it.
block_at(t, f, strict) ==
  LET close == IF strict THEN "close" ELSE "fence"
      k == first_after(t, f, "text")
  IN IF /\ strict /\ line_is(t[f], "close")
        /\ k # 0 /\ line_is(t[k], "doc")
        /\ block_to(t, k, first_after(t, k, "text"), close) # 0
       THEN [from |-> k + 1,
             to |-> block_to(t, k, first_after(t, k, "text"), close)]
     ELSE [from |-> f + 1, to |-> block_to(t, f, k, close)]

\* pattern.findall(s): the content of each block, from the first fence on;
\* the search goes on behind the block b it has found.
RECURSIVE blocks_of(_, _)
cut_block(t, b, strict) ==
  IF b.to = 0 THEN <<>>
  ELSE <<SubSeq(t, b.from, b.to - 1)>>
         \o blocks_of(SubSeq(t, b.to + 1, Len(t)), strict)
blocks_of(t, strict) ==
  IF first_after(t, 0, "fence") = 0 THEN <<>>
  ELSE cut_block(t, block_at(t, first_after(t, 0, "fence"), strict), strict)

\* "\n\n".join(b.strip() for b in blocks if b.strip())
RECURSIVE join_blocks(_)
join_blocks(bs) ==
  IF bs = <<>> THEN <<>>
  ELSE LET b == strip_text(Head(bs))
           rest == join_blocks(Tail(bs))
       IN IF b = <<>> THEN rest
          ELSE IF rest = <<>> THEN b
          ELSE b \o <<Lines.blank>> \o rest

\* re.sub(r"(?m)^\s*(```|~~~).*$", "", s): a fence line becomes an empty
\* line; \s* spans line ends, so the empty lines before it go with it.
RECURSIVE blank_fences(_)
blank_fences(t) ==
  IF t = <<>> THEN <<>>
  ELSE IF line_is(Head(t), "fence")
    THEN <<Lines.blank>> \o blank_fences(Tail(t))
  ELSE IF /\ Head(t).body = ""
          /\ first_after(t, 0, "text") # 0
          /\ line_is(t[first_after(t, 0, "text")], "fence")
    THEN blank_fences(Tail(t))
  ELSE <<Head(t)>> \o blank_fences(Tail(t))

\* re.sub(r"```[a-zA-Z0-9._-]*\s*", "", s): the marker goes together with
\* the white space after it, line ends included.
RECURSIVE remove_markers(_)
remove_markers(t) ==
  IF t = <<>> THEN <<>>
  ELSE IF line_is(Head(t), "fence") THEN remove_markers(lstrip_lines(Tail(t)))
  ELSE <<Head(t)>> \o remove_markers(Tail(t))

\* blocks = pattern.findall(s); "\n\n".join(...) if blocks else the text
joined_or(bs, otherwise) == IF bs # <<>> THEN join_blocks(bs) ELSE otherwise

\* agentd.strip_fences_strong
strip_fences_strong(t) ==
  strip_text(blank_fences(joined_or(blocks_of(t, TRUE), t)))

\* runner_agentd.strip_fences_strong: the blocks are returned as joined.
runner_strip_fences_strong(t) ==
  IF first_after(t, 0, "fence") = 0 THEN strip_text(t)
  ELSE joined_or(blocks_of(t, TRUE), strip_text(blank_fences(t)))

\* runner_agentd.strip_fences, over FENCE_BLOCK
strip_fences(t) ==
  IF first_after(strip_text(t), 0, "fence") = 0 THEN strip_text(t)
  ELSE joined_or(blocks_of(strip_text(t), FALSE),
                 strip_text(remove_markers(strip_text(t))))

\* Steps 1 and 2 of either sanitizer: the text from the first "---" on,
\* without the lines that match one of drop_patterns.
cleaned(t) ==
  LET d == first_after(t, 0, "doc")
      cut == IF d = 0 THEN t ELSE SubSeq(t, d, Len(t))
  IN strip_text(SelectSeq(strip_text(cut), LAMBDA l : ~line_is(l, "dropped")))

\* The conservative filter: empty lines, key lines and indented lines stay.
conservative(t) == SelectSeq(t, LAMBDA l : line_is(l, "kept"))

\* yaml.safe_load: the plays of a list of mappings, each play the set of its
\* "key: value" lines; one play without lines when the text is no such list.
RECURSIVE safe_load(_, _)
safe_load(t, plays) ==
  IF t = <<>> THEN plays
  ELSE IF Head(t).body = "" THEN safe_load(Tail(t), plays)
  ELSE IF Head(t).ind = 0 /\ item_key(Head(t)) # None
    THEN safe_load(Tail(t), Append(plays, {Head(t).body}))
  ELSE IF Head(t).ind = 2 /\ map_key(Head(t)) # None /\ plays # <<>>
    THEN safe_load(Tail(t),
           [plays EXCEPT ![Len(plays)] = @ \cup {Head(t).body}])
  ELSE <<{}>>

\* yaml.safe_load and the test on what it loaded: the text is a list of
\* mappings (plays holds the keys of those read so far), it is not empty,
\* and every play has one of the keys the check looks for.
RECURSIVE plays_valid(_, _)
plays_valid(t, plays) ==
  IF t = <<>>
    THEN /\ plays # <<>>
         /\ \A i \in DOMAIN plays :
              plays[i] \cap {"hosts", "tasks", "roles", "name"} # {}
  ELSE IF Head(t).body = "" THEN plays_valid(Tail(t), plays)
  ELSE IF Head(t).ind = 0 /\ item_key(Head(t)) # None
    THEN plays_valid(Tail(t), Append(plays, {item_key(Head(t))}))
  ELSE IF Head(t).ind = 2 /\ map_key(Head(t)) # None /\ plays # <<>>
    THEN plays_valid(Tail(t),
           [plays EXCEPT ![Len(plays)] = @ \cup {map_key(Head(t))}])
  ELSE FALSE

\* Variant: a play passes with any key of _ALLOWED_TOP_KEYS.
valid_with_allowed_top_keys(t) ==
  LET s == lstrip_lines(t)
      d == safe_load(IF s # <<>> /\ line_is(Head(s), "doc") THEN Tail(s)
                     ELSE s, <<>>)
  IN /\ d # <<>>
     /\ \A i \in DOMAIN d :
          \E b \in d[i] :
            b \in {"- name: web", "- name: web (nginx)", "- become: true",
                   "hosts: all", "tasks: []"}

\* _valid / _is_valid_pb; a leading "---" opens the document.
valid(t) ==
  LET s == lstrip_lines(t)
  IN plays_valid(IF s # <<>> /\ line_is(Head(s), "doc") THEN Tail(s) ELSE s,
                 <<>>)

\* The chunks of re.split(r"\n\s*\n", text2).
RECURSIVE chunks_of(_, _)
chunks_of(t, cur) ==
  IF t = <<>> THEN <<cur>>
  ELSE IF Head(t).body = "" THEN <<cur>> \o chunks_of(Tail(t), <<>>)
  ELSE chunks_of(Tail(t), Append(cur, Head(t)))
RECURSIVE first_valid(_)
first_valid(cs) ==
  IF cs = <<>> THEN None
  ELSE IF valid(strip_text(Head(cs))) THEN strip_text(Head(cs))
  ELSE first_valid(Tail(cs))

\* agentd.sanitize_yaml from the validity check on: the text when it is
\* valid, else what the conservative filter keeps of it, unchecked.
validated(text) ==
  IF valid(text) THEN text ELSE strip_text(conservative(text))

\* agentd.sanitize_yaml
sanitize_yaml(t) ==
  IF t = <<>> THEN <<>>
  ELSE validated(cleaned(strip_text(strip_fences_strong(t))))

\* runner_agentd.sanitize_yaml from the validity checks on: the text, the
\* conservatively filtered text2, the first valid chunk of text2, and the
\* text again when none of them is valid.
runner_validated(text) ==
  LET text2 == strip_text(conservative(text))
  IN IF valid(text) THEN text
     ELSE IF valid(text2) THEN text2
     ELSE IF first_valid(chunks_of(text2, <<>>)) # None
       THEN first_valid(chunks_of(text2, <<>>))
     ELSE text

\* runner_agentd.sanitize_yaml
runner_sanitize_yaml(t) ==
  IF t = <<>> THEN <<>>
  ELSE runner_validated(cleaned(strip_text(strip_fences(strip_text(
         remove_markers(strip_text(runner_strip_fences_strong(t))))))))

\* ------------------------------------------------------- phase decisions
\* Variant: a failed syntax check stops the run only at level "syntax".
after_syntax_ignores_rc(rc, verify) ==
  IF verify = "syntax" THEN (IF rc # 0 THEN "fail" ELSE "ok") ELSE "next"

\* Variant: level "none" ends the run after a successful syntax check.
after_syntax_none_stops(rc, verify) ==
  IF rc # 0 THEN "fail" ELSE IF verify \in {"syntax", "none"} THEN "ok" ELSE "next"

\* After the syntax command: rc != 0 -> report failure; verify == "syntax"
\* -> report success; otherwise go on to apply.
after_syntax(rc, verify) ==
  IF rc # 0 THEN "fail" ELSE IF verify = "syntax" THEN "ok" ELSE "next"

\* Variant: a successful apply always goes on to the idempotency check.
after_apply_ignores_verify(rc, verify) ==
  IF rc # 0 THEN "fail" ELSE "next"

\* After the apply command: rc != 0 -> report failure; verify != "all" ->
\* report the apply result; otherwise go on to the idempotency check.
after_apply(rc, verify) ==
  IF rc # 0 THEN "fail" ELSE IF verify # "all" THEN "ok" ELSE "next"

\* Variant: the apply block is missing, syntax is followed by check/diff.
next_phase_skips_apply(phase) == "idempotency"

\* The phase the code runs after a phase that neither failed nor ended the run.
next_phase(phase) == IF phase = "syntax" THEN "apply" ELSE "idempotency"

\* Variant: every return reports the phase name of the first return.
buffered_summary_stale_phase(phase, failed) == [phase |-> "syntax", failed |-> failed]

\* The summary dict of a buffered response.
buffered_summary(phase, failed) == [phase |-> phase, failed |-> failed]

\* Records of the event stream (send(...) and the raw end marker).
event_record(phase) == [type |-> "event", phase |-> phase]
summary_record(phase, rc, failed) ==
  [type |-> "summary", phase |-> phase, rc |-> rc, failed |-> failed]
\* Variant: a non-zero changed count marks the idempotency phase failed.
idempotency_summary_changed_fails(rc, changed) ==
  [type |-> "summary", phase |-> "idempotency", rc |-> rc,
   failed |-> (rc # 0 \/ changed > 0), changed |-> changed]

idempotency_summary(rc, changed) ==
  [type |-> "summary", phase |-> "idempotency", rc |-> rc,
   failed |-> (rc # 0), changed |-> changed]
bundle_record(path) == [type |-> "bundle", path |-> path]

\* Variant: the archive is never written.
zip_result_writes_nothing(fs) == fs

\* zip_result: (over)writes bundle.zip in the workspace.
zip_result(fs) == fs \cup {BundlePath}

\* ----------------------------------------------------------------- state
VARIABLES
  files,      \* regular files of the workspace
  runs,       \* run requests served so far
  req,        \* the current run request (RunReq)
  pc,         \* position of the current run: idle, invoke, events, end,
              \* returned, bundled, done
  phase,      \* phase the run is at
  cmds,       \* external commands invoked by the current run, in order
  rcOf,       \* return code of each phase that has finished in this run
  resp,       \* JSON response of the buffered engine
  stream,     \* records yielded by stream_and_zip so far
  evLeft,     \* runner events of the current phase not yet iterated
  pulling,    \* the consumer has called next() and the generator is running
  connected,  \* the consumer of the stream is still there
  trace       \* order of phase completions, archiving and reporting

\* The state of the staged execution engines.
engine_vars == <<files, runs, req, pc, phase, cmds, rcOf, resp, stream, evLeft,
                 pulling, connected, trace>>

\* Request handling around the engines (run prologue, archive retrieval).
VARIABLES
  dirs,       \* directories that exist under WORK_DIR
  rreq,       \* the run request being served: task_id and inventory fields
  reply,      \* what the run request has been answered with so far
  dl          \* answer to the latest archive retrieval

request_vars == <<dirs, rreq, reply, dl>>

\* build_inventory applied to one input.
VARIABLES
  invIn,      \* arguments of the call
  invOut      \* its outcome

inventory_vars == <<invIn, invOut>>

\* Generate requests served side by side.
VARIABLES
  now,        \* the clock second of datetime.now()
  greq,       \* the service each generate request is sent to
  gpc,        \* where each generate request stands
  gid,        \* the run identifier each request drew
  gname,      \* the playbook name each request settled on
  llm_calls,  \* calls each request made to the language model
  llm_out,    \* what the language model call came back with
  greply,     \* the answer to each request
  wsdirs,     \* workspace directories, by run identifier
  pbs         \* playbook files: workspace, name, text, writing request

generate_vars == <<now, greq, gpc, gid, gname, llm_calls, llm_out, greply,
                   wsdirs, pbs>>

\* One path of a workspace, its writers and a reader.
VARIABLES
  path,       \* the input file written and read
  inode_of,   \* directory entries: the path and its temporary sibling
  data,       \* content of each inode, chunk by chunk
  wpc,        \* chunks each writer has written, or where else it stands
  fd,         \* the inode each writer holds open
  seen        \* what the reader read

fs_vars == <<path, inode_of, data, wpc, fd, seen>>

\* zip_result applied to one workspace tree.
VARIABLES
  tree,       \* directory entries of the workspace, by relative path
  archive,    \* entry names of bundle.zip, as a bag
  earlier,    \* entry names the call before left
  zcalls      \* calls of zip_result so far

zip_vars == <<tree, archive, earlier, zcalls>>

\* The text functions applied to one text.
VARIABLES
  textIn,     \* the text handed to the fence strippers and the sanitizers
  textOut     \* what each of them returned

text_vars == <<textIn, textOut>>

\* The system prompts of kiki-agentd.
VARIABLES
  promptEnv,    \* KIKI_SYSTEM_PROMPT_<KEY> of the environment, by key
  promptFile,   \* what KIKI_SYSTEM_PROMPT_FILE names, as it is on disk now
  promptCache,  \* _PROMPT_FILE_CACHE
  promptOut     \* the last call of get_system_prompt_for_target

prompt_vars == <<promptEnv, promptFile, promptCache, promptOut>>

\* The log files of one workspace over its buffered runs.
VARIABLES
  logs,       \* per phase: whether its log file exists, and the run each of
              \* its lines was written by
  logRun,     \* the run being served: its number, its level, the phase it
              \* is at ("done" once it has returned), and per phase the
              \* number of the last run that invoked it (0: none)
  logBundle   \* the logs in bundle.zip as the last zip_result stored them

log_vars == <<logs, logRun, logBundle>>

\* kiki_agentd: the tables of its database and the requests it serves.
VARIABLES
  users,         \* table users; the id of a row is its index
  sessions,      \* table sessions
  command_logs,  \* table command_logs; id and created_at of a row are its
                 \* index
  upstream,      \* the call to the upstream model that is under way
  answer         \* the last request: who sent what, and the status it got
                 \* (0 while the upstream call is under way)

auth_vars == <<users, sessions, command_logs, upstream, answer>>

\* PlaybookAgent.run_task: where it stands (pc), its arguments, the loop
\* counter, and the calls it has made so far, each with what it gave.
VARIABLE agent

more_vars == <<text_vars, prompt_vars, log_vars, auth_vars, agent>>

\* The variables of the specifications on engines, requests and files.
early_vars == <<engine_vars, request_vars, inventory_vars, generate_vars,
                fs_vars, zip_vars>>

\* Everything outside the engines.
other_vars == <<request_vars, inventory_vars, generate_vars, fs_vars,
                zip_vars, more_vars>>

vars == <<engine_vars, other_vars>>

EngineInit ==
  /\ files = {Playbook}
  /\ runs = 0
  /\ req = ([engine |-> None, verify |-> None, limit |-> None, tags |-> None,
             extra_vars |-> None, inv_path |-> None])
  /\ pc = "idle"
  /\ phase = "syntax"
  /\ cmds = <<>>
  /\ rcOf = [p \in {} |-> 0]
  /\ resp = NoResp
  /\ stream = <<>>
  /\ evLeft = 0
  /\ pulling = FALSE
  /\ connected = TRUE
  /\ trace = <<>>

NoReply == [status |-> None]

\* The variables of the specifications other than g stand unused: no
\* request has been made besides the run requests of the engines.
Idle(g) ==
  /\ IF g = "request" THEN TRUE
     ELSE /\ dirs = {} /\ rreq = NoReply /\ reply = NoReply
          /\ dl = NoReply
  /\ IF g = "inventory" THEN TRUE
     ELSE invIn = NoReply /\ invOut = NoReply
  /\ IF g = "generate" THEN TRUE
     ELSE /\ now = 0
          /\ greq = <<>> /\ gpc = <<>> /\ gid = <<>> /\ gname = <<>>
          /\ llm_calls = <<>> /\ llm_out = <<>> /\ greply = <<>>
          /\ wsdirs = {} /\ pbs = {}
  /\ IF g = "fs" THEN TRUE
     ELSE /\ path = None
          /\ inode_of = <<>> /\ data = <<>> /\ wpc = <<>> /\ fd = <<>>
          /\ seen = <<>>
  /\ IF g = "zip" THEN TRUE
     ELSE /\ tree = {} /\ archive = <<>> /\ earlier = <<>>
          /\ zcalls = 0
  /\ IF g = "text" THEN TRUE ELSE textIn = <<>> /\ textOut = NoReply
  /\ IF g = "prompt" THEN TRUE
     ELSE /\ promptEnv = <<>> /\ promptFile = [kind |-> "unset"]
          /\ promptCache = [loaded |-> FALSE] /\ promptOut = NoReply
  /\ IF g = "log" THEN TRUE
     ELSE logs = <<>> /\ logRun = [n |-> 0] /\ logBundle = {}
  /\ IF g = "auth" THEN TRUE
     ELSE /\ users = <<>> /\ sessions = <<>> /\ command_logs = <<>>
          /\ upstream = [op |-> None] /\ answer = [op |-> None]
  /\ IF g = "agent" THEN TRUE ELSE agent = [pc |-> "end"]

Init ==
  /\ EngineInit /\ Idle("")

SetRc(f, p, rc) == [q \in DOMAIN f \cup {p} |-> IF q = p THEN rc ELSE f[q]]

\* ------------------------------------------------------------ run request
\* POST /api/v1/run up to the first external command: inventory written,
\* (buffered) ansible.cfg, logs/ and extra_vars.json prepared; (streamed) the
\* StreamingResponse over stream_and_zip() is returned, nothing has run yet.
run_task(e, v, l, t, x) ==
  /\ pc \in {"idle", "done"} \/ (req.engine = "runner" /\ ~connected /\ ~pulling)
  /\ runs < MaxRuns
  /\ runs' = runs + 1
  /\ req' = [engine |-> e, verify |-> v, limit |-> l, tags |-> t,
             extra_vars |-> x, inv_path |-> InvPath]
  /\ files' = files \cup {InvPath}
                \cup (IF e = "ansible" THEN {"project/ansible.cfg"} ELSE {})
                \cup (IF e = "ansible" /\ Truthy(x) THEN {"extra_vars.json"} ELSE {})
  /\ pc' = "invoke"
  /\ phase' = "syntax"
  /\ cmds' = <<>>
  /\ rcOf' = [p \in {} |-> 0]
  /\ resp' = NoResp
  /\ stream' = <<>>
  /\ evLeft' = 0
  /\ pulling' = FALSE
  /\ connected' = TRUE
  /\ trace' = <<>>
  /\ UNCHANGED other_vars

\* ---------------------------------------------------------- buffered engine
\* return {..., "summary": {...}, "stdout": ..., "bundle": str(zip_result(run_dir))}
buffered_return(fs, rc, failed) ==
  /\ files' = zip_result(fs)
  /\ resp' = [rc |-> rc, summary |-> buffered_summary(phase, failed),
              stdout |-> phase, bundle |-> BundlePath]
  /\ trace' = trace \o <<phase, "zip", "respond">>
  /\ pc' = "done"
  /\ phase' = phase

buffered_continue(fs) ==
  /\ files' = fs
  /\ resp' = resp
  /\ trace' = Append(trace, phase)
  /\ pc' = "invoke"
  /\ phase' = next_phase(phase)

\* r1 = _run(base_cmd + ["--syntax-check"], logs / "01_syntax.log") and the
\* two returns that follow it.
buffered_syntax ==
  /\ req.engine = "ansible" /\ pc = "invoke" /\ phase = "syntax"
  /\ \E rc \in ReturnCodes :
       /\ cmds' = Append(cmds, [args |-> buffered_args("syntax", req)])
       /\ rcOf' = SetRc(rcOf, "syntax", rc)
       /\ LET fs == files \cup {logfile("syntax")}
              d == after_syntax(rc, req.verify)
          IN IF d = "fail" THEN buffered_return(fs, rc, TRUE)
             ELSE IF d = "ok" THEN buffered_return(fs, 0, FALSE)
             ELSE buffered_continue(fs)
  /\ UNCHANGED <<runs, req, stream, evLeft, pulling, connected>>
  /\ UNCHANGED other_vars

\* r2 = _run(base_cmd, logs / "02_apply.log") and the return that follows it.
buffered_apply ==
  /\ req.engine = "ansible" /\ pc = "invoke" /\ phase = "apply"
  /\ \E rc \in ReturnCodes :
       /\ cmds' = Append(cmds, [args |-> buffered_args("apply", req)])
       /\ rcOf' = SetRc(rcOf, "apply", rc)
       /\ LET fs == files \cup {logfile("apply")}
              d == after_apply(rc, req.verify)
          IN IF d = "next" THEN buffered_continue(fs)
             ELSE buffered_return(fs, rc, rc # 0)
  /\ UNCHANGED <<runs, req, stream, evLeft, pulling, connected>>
  /\ UNCHANGED other_vars

\* r3 = _run(base_cmd + ["--check","--diff"], ...) and the final return.
buffered_idempotency ==
  /\ req.engine = "ansible" /\ pc = "invoke" /\ phase = "idempotency"
  /\ \E rc \in ReturnCodes :
       /\ cmds' = Append(cmds, [args |-> buffered_args("idempotency", req)])
       /\ rcOf' = SetRc(rcOf, "idempotency", rc)
       /\ buffered_return(files \cup {logfile("idempotency")}, rc, rc # 0)
  /\ UNCHANGED <<runs, req, stream, evLeft, pulling, connected>>
  /\ UNCHANGED other_vars

\* ---------------------------------------------------------- streamed engine
\* The consumer asks the generator for its next record.
consumer_pull ==
  /\ req.engine = "runner" /\ connected /\ ~pulling
  /\ pc \notin {"idle", "done"}
  /\ pulling' = TRUE
  /\ UNCHANGED <<files, runs, req, pc, phase, cmds, rcOf, resp, stream,
                 evLeft, connected, trace>>
  /\ UNCHANGED other_vars

\* The consumer goes away; a next() already in progress runs to its yield.
consumer_disconnect ==
  /\ req.engine = "runner" /\ connected
  /\ pc \notin {"idle", "done"}
  /\ connected' = FALSE
  /\ UNCHANGED <<files, runs, req, pc, phase, cmds, rcOf, resp, stream,
                 evLeft, pulling, trace>>
  /\ UNCHANGED other_vars

\* yield: the record leaves the generator, which is suspended until the
\* next pull.
yield(rec) ==
  /\ stream' = Append(stream, rec)
  /\ pulling' = FALSE

\* ansible_runner.run_async(...) of the current phase; on the first phase
\* the prologue of runner_stream (ansible.cfg, env/extravars) runs first.
stream_invoke ==
  /\ req.engine = "runner" /\ pulling /\ pc = "invoke"
  /\ cmds' = Append(cmds, [args |-> runner_cmdline(phase, req)])
  /\ files' = IF phase = "syntax"
              THEN files \cup {"project/ansible.cfg"}
                     \cup (IF Truthy(req.extra_vars) THEN {"env/extravars"} ELSE {})
              ELSE files
  /\ \E n \in 0..MaxEvents : evLeft' = n
  /\ pc' = "events"
  /\ UNCHANGED <<runs, req, phase, rcOf, resp, stream, pulling, connected, trace>>
  /\ UNCHANGED other_vars

\* for ev in r.events: if ev.get("stdout", "").strip(): yield send(event)
stream_event ==
  /\ req.engine = "runner" /\ pulling /\ pc = "events" /\ evLeft > 0
  /\ evLeft' = evLeft - 1
  /\ \E blank \in BOOLEAN :
       IF blank THEN UNCHANGED <<stream, pulling>>
       ELSE yield(event_record(phase))
  /\ UNCHANGED <<files, runs, req, pc, phase, cmds, rcOf, resp, connected, trace>>
  /\ UNCHANGED other_vars

\* t1.join() and the branches on r1.rc / verify.
stream_join_syntax ==
  /\ req.engine = "runner" /\ pulling /\ pc = "events" /\ evLeft = 0
  /\ phase = "syntax"
  /\ \E rc \in ReturnCodes :
       /\ rcOf' = SetRc(rcOf, "syntax", rc)
       /\ LET d == after_syntax(rc, req.verify)
          IN IF d = "fail"
               THEN yield(summary_record("syntax", rc, TRUE))
                      /\ pc' = "end" /\ phase' = phase
             ELSE IF d = "ok"
               THEN yield(summary_record("syntax", 0, FALSE))
                      /\ pc' = "end" /\ phase' = phase
             ELSE UNCHANGED <<stream, pulling>>
                      /\ pc' = "invoke" /\ phase' = next_phase(phase)
  /\ trace' = Append(trace, "syntax")
  /\ UNCHANGED <<files, runs, req, cmds, resp, evLeft, connected>>
  /\ UNCHANGED other_vars

\* t2.join() and the branches on r2.rc / verify.
stream_join_apply ==
  /\ req.engine = "runner" /\ pulling /\ pc = "events" /\ evLeft = 0
  /\ phase = "apply"
  /\ \E rc \in ReturnCodes :
       /\ rcOf' = SetRc(rcOf, "apply", rc)
       /\ LET d == after_apply(rc, req.verify)
          IN IF d = "fail"
               THEN yield(summary_record("apply", rc, TRUE))
                      /\ pc' = "end" /\ phase' = phase
             ELSE IF d = "ok"
               THEN yield(summary_record("apply", rc, FALSE))
                      /\ pc' = "end" /\ phase' = phase
             ELSE UNCHANGED <<stream, pulling>>
                      /\ pc' = "invoke" /\ phase' = next_phase(phase)
  /\ trace' = Append(trace, "apply")
  /\ UNCHANGED <<files, runs, req, cmds, resp, evLeft, connected>>
  /\ UNCHANGED other_vars

\* t3.join(), the changed count out of r3.stats, and the last summary.
stream_join_idempotency ==
  /\ req.engine = "runner" /\ pulling /\ pc = "events" /\ evLeft = 0
  /\ phase = "idempotency"
  /\ \E rc \in ReturnCodes, stats \in ({[kind |-> "none"], [kind |-> "nokey"]}
                                         \cup {[kind |-> "int", changed |-> n] : n \in 0..MaxChanged}
                                         \cup {[kind |-> "dict", changed |-> f] : f \in [{"h1", "h2"} -> 0..MaxChanged]}) :
       /\ rcOf' = SetRc(rcOf, "idempotency", rc)
       /\ yield(idempotency_summary(rc, changed_count(stats)))
  /\ pc' = "end"
  /\ trace' = Append(trace, "idempotency")
  /\ UNCHANGED <<files, runs, req, phase, cmds, resp, evLeft, connected>>
  /\ UNCHANGED other_vars

\* Variant: runner_stream returns without yielding the end marker.
stream_end_without_marker ==
  /\ req.engine = "runner" /\ pulling /\ pc = "end"
  /\ pc' = "returned"
  /\ UNCHANGED <<files, runs, req, phase, cmds, rcOf, resp, stream, evLeft,
                 pulling, connected, trace>>
  /\ UNCHANGED other_vars

\* yield b"event: end\n\n" ; return
stream_end ==
  /\ req.engine = "runner" /\ pulling /\ pc = "end"
  /\ yield([type |-> "end"])
  /\ pc' = "returned"
  /\ UNCHANGED <<files, runs, req, phase, cmds, rcOf, resp, evLeft,
                 connected, trace>>
  /\ UNCHANGED other_vars

\* stream_and_zip after "yield from runner_stream(...)": archive, then the
\* bundle record.
stream_and_zip ==
  /\ req.engine = "runner" /\ pulling /\ pc = "returned"
  /\ files' = zip_result(files)
  /\ yield(bundle_record(BundlePath))
  /\ trace' = trace \o <<"zip", "respond">>
  /\ pc' = "bundled"
  /\ UNCHANGED <<runs, req, phase, cmds, rcOf, resp, evLeft, connected>>
  /\ UNCHANGED other_vars

\* The generator is exhausted: the stream has been consumed to its end.
stream_close ==
  /\ req.engine = "runner" /\ pulling /\ pc = "bundled"
  /\ pulling' = FALSE
  /\ pc' = "done"
  /\ UNCHANGED <<files, runs, req, phase, cmds, rcOf, resp, stream, evLeft,
                 connected, trace>>
  /\ UNCHANGED other_vars

Next ==
  \/ \E e \in {"ansible", "runner"}, v \in VerifyLevels,
        l \in {None, "web1"}, t \in {None, "nginx"},
        x \in {None, "{k: v}"} : run_task(e, v, l, t, x)
  \/ buffered_syntax
  \/ buffered_apply
  \/ buffered_idempotency
  \/ consumer_pull
  \/ consumer_disconnect
  \/ stream_invoke
  \/ stream_event
  \/ stream_join_syntax
  \/ stream_join_apply
  \/ stream_join_idempotency
  \/ stream_end
  \/ stream_and_zip
  \/ stream_close

Spec == Init /\ [][Next]_vars

\* The server keeps executing a handler it has entered, a generator that has
\* been resumed runs to its next yield, and a connected consumer keeps
\* pulling.  Nothing obliges a consumer to stay connected or a new request
\* to arrive.
FairSpec ==
  /\ Spec
  /\ WF_vars(buffered_syntax \/ buffered_apply \/ buffered_idempotency)
  /\ WF_vars(\/ stream_invoke
             \/ stream_event
             \/ stream_join_syntax
             \/ stream_join_apply
             \/ stream_join_idempotency
             \/ stream_end
             \/ stream_and_zip
             \/ stream_close)
  /\ WF_vars(consumer_pull)

\* ------------------------------------------------ requests on workspaces
\* Workspaces by task_id: t1 holds a generated playbook, t2 was never
\* generated, t3 was created by a generate request that failed before it
\* wrote a playbook.  The engine variables describe workspace t1.
\* run_dir; its project/ and logs/ are <<task, "project">>, <<task, "logs">>.
run_dir(task) == <<task>>

RequestInit ==
  /\ EngineInit /\ Idle("request")
  /\ dirs = {run_dir("t1"), <<"t1", "project">>, run_dir("t3"),
            <<"t3", "project">>}
  /\ rreq = [n |-> 0]
  /\ reply = NoReply
  /\ dl = NoReply

\* Variant: the handler does not look whether the workspace exists.
run_dir_exists_unchecked(task, ds) == TRUE

\* run_dir.exists()
run_dir_exists(task, ds) == run_dir(task) \in ds

\* sorted(project_dir.glob("*.yml"))
ymls(task, fs) == IF task = "t1" THEN fs \cap {Playbook} ELSE {}

\* run_task up to its first external command: the outcome of the checks and
\* of build_inventory.  Status 200 stands for a request whose handler goes on
\* to the phases and answers with the final report.
run_prologue(task, ds, fs, inv_spec, ssh_key, inline_text) ==
  IF ~run_dir_exists(task, ds)
    THEN [status |-> 404, detail |-> "task_id not found"]
  ELSE IF ymls(task, fs) = {}
    THEN [status |-> 400, detail |-> "no playbook in run_dir"]
  ELSE LET inv == build_inventory(inv_spec, "rocky", ssh_key, inline_text)
       IN IF ~inv.ok THEN [status |-> 400, detail |-> inv.error]
          ELSE [status |-> 200, inv |-> inv]

\* The per-request observations of a request that was turned away.
rejected ==
  /\ pc' = "rejected"
  /\ cmds' = <<>>
  /\ rcOf' = [p \in {} |-> 0]
  /\ resp' = NoResp
  /\ trace' = <<>>
  /\ UNCHANGED <<files, dirs, req, phase>>

\* The handler goes on: inventory.ini (when build_inventory wrote it),
\* ansible.cfg, logs/, then the syntax phase.
accepted(task, v, inv) ==
  /\ files' = files \cup (IF inv.written THEN {InvPath} ELSE {})
                \cup {"project/ansible.cfg"}
  /\ dirs' = dirs \cup {<<task, "logs">>}
  /\ req' = [engine |-> "ansible", verify |-> v, limit |-> None, tags |-> None,
             extra_vars |-> None, inv_path |-> inv.path]
  /\ pc' = "invoke"
  /\ phase' = "syntax"
  /\ cmds' = <<>>
  /\ rcOf' = [p \in {} |-> 0]
  /\ resp' = NoResp
  /\ trace' = <<>>

\* POST /api/v1/run (buffered engine), from the request to the first
\* external command or to the error response.
post_run(task, inv_spec, inline_text, v) ==
  /\ pc \in {"idle", "done", "rejected"}
  /\ rreq' = [n |-> 1 - rreq.n, task |-> task, inventory |-> inv_spec,
              inventory_file_content |-> inline_text, verify |-> v]
  /\ LET out == run_prologue(task, dirs, files, inv_spec,
                             "/home/agent/.ssh/id_rsa", inline_text)
     IN /\ reply' = out
        /\ IF out.status = 200 THEN accepted(task, v, out.inv)
           ELSE rejected
  /\ UNCHANGED <<runs, stream, evLeft, pulling, connected, dl, inventory_vars,
                 generate_vars, fs_vars, zip_vars, more_vars>>

\* GET /api/v1/bundle/{task_id}; the answer notes where the run on the
\* workspace stood when the archive was asked for.  The files of the model
\* are those of workspace t1.
download_bundle(task) ==
  /\ dl' = IF ~run_dir_exists(task, dirs)
             THEN [task |-> task, status |-> 404, detail |-> "task not found",
                   at |-> pc]
           ELSE IF ~(task = "t1" /\ BundlePath \in files)
             THEN [task |-> task, status |-> 404, detail |-> "bundle not ready",
                   at |-> pc]
           ELSE [task |-> task, status |-> 200, detail |-> BundlePath, at |-> pc]
  /\ UNCHANGED <<engine_vars, dirs, rreq, reply, inventory_vars,
                 generate_vars, fs_vars, zip_vars, more_vars>>

RequestSpec ==
  RequestInit /\ [][
    \/ \E task \in {"t1", "t2", "t3"},
          i \in {[kind |-> "str", fields |-> <<"h1">>, is_path |-> FALSE],
                 [kind |-> "str", fields |-> <<"">>, is_path |-> TRUE],
                 [kind |-> "str", fields |-> <<" ", "">>, is_path |-> FALSE],
                 [kind |-> "list", items |-> <<>>]},
          v \in VerifyLevels,
          t \in {[given |-> FALSE], [given |-> TRUE, lines |-> InlineLines]} :
         post_run(task, i, t, v)
    \/ \E task \in {"t1", "t2", "t3"} : download_bundle(task)
    \/ buffered_syntax
    \/ buffered_apply
    \/ buffered_idempotency]_vars

\* ------------------------------------------------------ generate requests
\* Two generate requests with the same name; each is served by one of the
\* two services that carry the handler.
Requests == {"g1", "g2"}

\* The text generate is left with after its cleaning steps.
generated_text(service, content) ==
  IF service = "agentd"
    THEN strip_fences_strong(sanitize_yaml(strip_fences_strong(content)))
  ELSE strip_text(remove_markers(
         runner_sanitize_yaml(runner_strip_fences_strong(strip_fences(content)))))

\* generate once the text is cleaned: an empty text is refused, any other is
\* written to the playbook file.
after_clean(text) ==
  IF text = <<>>
    THEN [status |-> 422, detail |-> <<"LLM returned empty content">>,
          write |-> FALSE]
  ELSE [status |-> 200, write |-> TRUE, text |-> text]

\* Variant: an error of the call is answered like an empty completion that
\* is stored as it is.
after_llm_stores_on_error(service, out) ==
  IF out.raised
    THEN [status |-> 200, write |-> TRUE, text |-> <<Line(0, out.error)>>]
  ELSE [status |-> 200, write |-> TRUE, text |-> out.content]

\* generate from the return of the call to its answer.
after_llm(service, out) ==
  IF out.raised
    THEN [status |-> 500, detail |-> <<"LLM error: ", out.error>>,
          write |-> FALSE]
  ELSE after_clean(generated_text(service, out.content))

\* ensure_unique_name(proj, base): base, or base with six hexadecimal
\* digits of a uuid4 when base is taken.
ensure_unique_name(id, files_there) ==
  IF \E p \in files_there : p.id = id /\ p.name = Playbook
    THEN "project/playbook-5e01bc.yml" ELSE Playbook

GenerateInit ==
  /\ EngineInit /\ Idle("generate")
  /\ now = 0
  /\ greq = [g \in Requests |-> None]
  /\ gpc = [g \in Requests |-> "idle"]
  /\ gid = [g \in Requests |-> <<>>]
  /\ gname = [g \in Requests |-> None]
  /\ llm_calls = [g \in Requests |-> 0]
  /\ llm_out = [g \in Requests |-> [pending |-> TRUE]]
  /\ greply = [g \in Requests |-> NoReply]
  /\ wsdirs = {}
  /\ pbs = {}

\* A second passes.
tick ==
  /\ now < MaxClock
  /\ now' = now + 1
  /\ UNCHANGED <<greq, gpc, gid, gname, llm_calls, llm_out, greply, wsdirs, pbs>>
  /\ UNCHANGED <<engine_vars, request_vars, inventory_vars, fs_vars,
                 zip_vars, more_vars>>

\* generate up to the call of the language model: the run identifier is
\* drawn (the second and one of the 16^6 values of uuid4().hex[:6]), the
\* workspace and its project directory are made (exist_ok), the
\* playbook name is settled.
gen_begin(g, service, suffix) ==
  /\ gpc[g] = "idle"
  /\ greq' = [greq EXCEPT ![g] = service]
  /\ gid' = [gid EXCEPT ![g] = <<now, suffix>>]
  /\ wsdirs' = wsdirs \cup {<<now, suffix>>}
  /\ gname' = [gname EXCEPT ![g] = ensure_unique_name(<<now, suffix>>, pbs)]
  /\ gpc' = [gpc EXCEPT ![g] = "begun"]
  /\ UNCHANGED <<now, llm_calls, llm_out, greply, pbs>>
  /\ UNCHANGED <<engine_vars, request_vars, inventory_vars, fs_vars,
                 zip_vars, more_vars>>

\* client.chat.completions.create(**payload)
gen_call(g) ==
  /\ gpc[g] = "begun"
  /\ llm_calls' = [llm_calls EXCEPT ![g] = @ + 1]
  /\ gpc' = [gpc EXCEPT ![g] = "calling"]
  /\ UNCHANGED <<now, greq, gid, gname, llm_out, greply, wsdirs, pbs>>
  /\ UNCHANGED <<engine_vars, request_vars, inventory_vars, fs_vars,
                 zip_vars, more_vars>>

\* The call returns or raises; generate cleans the text, answers, and
\* writes the playbook when it answers with success.
gen_return(g, out) ==
  /\ gpc[g] = "calling"
  /\ llm_out' = [llm_out EXCEPT ![g] = out]
  /\ \E r \in {after_llm(greq[g], out)} :
        /\ greply' = [greply EXCEPT ![g] = r]
        /\ pbs' = IF r.write
                    THEN {p \in pbs : ~(p.id = gid[g] /\ p.name = gname[g])}
                           \cup {[id |-> gid[g], name |-> gname[g],
                                  text |-> r.text, by |-> g]}
                  ELSE pbs
  /\ gpc' = [gpc EXCEPT ![g] = "done"]
  /\ UNCHANGED <<now, greq, gid, gname, llm_calls, wsdirs>>
  /\ UNCHANGED <<engine_vars, request_vars, inventory_vars, fs_vars,
                 zip_vars, more_vars>>

GenerateSpec ==
  GenerateInit /\ [][
    \/ tick
    \/ \E g \in Requests, sv \in {"agentd", "runner_agentd"},
          x \in {"a3f9c1", "7b20de"} : gen_begin(g, sv, x)
    \/ \E g \in Requests : gen_call(g)
    \/ \E g \in Requests,
          out \in {[raised |-> TRUE, error |-> e] :
                     e \in {"Connection error.", "Error code: 503"}}
                  \cup {[raised |-> FALSE, content |-> c] :
                          c \in {<<>>,
                                 <<Lines.refusal>>,
                                 <<Lines.remark>>,
                                 <<Lines.play_name, Lines.hosts>>,
                                 <<Lines.fence_yaml, Lines.play_name,
                                   Lines.hosts, Lines.tasks, Lines.fence>>,
                                 <<Lines.remark, Lines.blank, Lines.doc_start,
                                   Lines.play_name, Lines.hosts>>,
                                 <<Lines.play_name, Lines.apology>>,
                                 <<Lines.play_become, Lines.hosts>>}} :
         gen_return(g, out)]_vars

\* --------------------------------------------------- workspace file writes
uses_write_file(p) == p # "extra_vars.json"

Writers == {"w1", "w2"}
NewContent(w) == [i \in 1..MaxChunks |-> <<w, i>>]

\* The bytes of an inode after a write of chunk c at chunk offset n; a write
\* past the end leaves a hole.
pwrite(content, n, c) ==
  [i \in 1..(IF n + 1 > Len(content) THEN n + 1 ELSE Len(content)) |->
     IF i = n + 1 THEN c ELSE IF i <= Len(content) THEN content[i]
     ELSE <<"hole", 0>>]

FsInit ==
  /\ EngineInit /\ Idle("fs")
  /\ path \in {Playbook, "project/ansible.cfg", InvPath, "extra_vars.json"}
  /\ inode_of = [file |-> 1, tmp |-> 0]
  /\ data = <<[i \in 1..MaxChunks |-> <<"old", i>>]>>
  /\ wpc = [w \in Writers |-> [at |-> "idle", n |-> 0]]
  /\ fd = [w \in Writers |-> 0]
  /\ seen = <<<<"not read", 0>>>>

\* write_file: tmp.write_text(...) opens path + ".new";
\* run_task: ev.write_text(...) opens extra_vars.json itself.
\* open(name, "w"): the entry is created when missing, else its inode is
\* truncated.
writer_open(w) ==
  /\ wpc[w].at = "idle"
  /\ LET name == IF uses_write_file(path) THEN "tmp" ELSE "file"
     IN IF inode_of[name] = 0
          THEN /\ data' = Append(data, <<>>)
               /\ inode_of' = [inode_of EXCEPT ![name] = Len(data) + 1]
               /\ fd' = [fd EXCEPT ![w] = Len(data) + 1]
          ELSE /\ data' = [data EXCEPT ![inode_of[name]] = <<>>]
               /\ fd' = [fd EXCEPT ![w] = inode_of[name]]
               /\ UNCHANGED inode_of
  /\ wpc' = [wpc EXCEPT ![w] = [at |-> "writing", n |-> 0]]
  /\ UNCHANGED <<path, seen>>
  /\ UNCHANGED <<engine_vars, request_vars, inventory_vars, generate_vars,
                 zip_vars, more_vars>>

\* The next chunk of the content goes to the open inode.
writer_write(w) ==
  /\ wpc[w].at = "writing"
  /\ wpc[w].n < MaxChunks
  /\ data' = [data EXCEPT ![fd[w]] = pwrite(@, wpc[w].n, NewContent(w)[wpc[w].n + 1])]
  /\ wpc' = [wpc EXCEPT ![w].n = @ + 1]
  /\ UNCHANGED <<path, inode_of, fd, seen>>
  /\ UNCHANGED <<engine_vars, request_vars, inventory_vars, generate_vars,
                 zip_vars, more_vars>>

\* write_file: tmp.replace(path), which fails when another writer has
\* already renamed the temporary file away.
writer_replace(w) ==
  /\ uses_write_file(path)
  /\ wpc[w].at = "writing"
  /\ wpc[w].n = MaxChunks
  /\ IF inode_of.tmp = 0
       THEN /\ wpc' = [wpc EXCEPT ![w].at = "failed"]
            /\ UNCHANGED inode_of
       ELSE /\ wpc' = [wpc EXCEPT ![w].at = "done"]
            /\ inode_of' = [file |-> inode_of.tmp, tmp |-> 0]
  /\ UNCHANGED <<path, data, fd, seen>>
  /\ UNCHANGED <<engine_vars, request_vars, inventory_vars, generate_vars,
                 zip_vars, more_vars>>

\* write_text returns once the file is closed.
writer_close(w) ==
  /\ ~uses_write_file(path)
  /\ wpc[w].at = "writing"
  /\ wpc[w].n = MaxChunks
  /\ wpc' = [wpc EXCEPT ![w].at = "done"]
  /\ UNCHANGED <<path, inode_of, data, fd, seen>>
  /\ UNCHANGED <<engine_vars, request_vars, inventory_vars, generate_vars,
                 zip_vars, more_vars>>

\* A reader reads the whole file in one go.
reader_read ==
  /\ seen' = data[inode_of.file]
  /\ UNCHANGED <<path, inode_of, data, wpc, fd>>
  /\ UNCHANGED <<engine_vars, request_vars, inventory_vars, generate_vars,
                 zip_vars, more_vars>>

FsSpec == FsInit /\ [][(\/ \E w \in Writers : writer_open(w)
                        \/ \E w \in Writers : writer_write(w)
                        \/ \E w \in Writers : writer_replace(w)
                        \/ \E w \in Writers : writer_close(w)
                        \/ reader_read)]_vars

\* ------------------------------------------------------------ zip_result
\* Directory entries of a workspace: name relative to the workspace root,
\* and whether it is a regular file.
File(name) == [name |-> name, kind |-> "file"]

\* zipfile.ZipFile(z, "w"): bundle.zip exists, empty, before the walk.
zip_open(t) == t \cup {File(BundlePath)}

\* Variant: the walk does not test is_file().
zip_entries_with_dirs(t) == SetToBag({e.name : e \in zip_open(t)})

\* The names zf.write is called with: one per regular file that
\* run_dir.rglob("*") meets, relative to run_dir.
zip_entries(t) == SetToBag({e.name : e \in {x \in zip_open(t) : x.kind = "file"}})

ZipInit ==
  /\ EngineInit /\ Idle("zip")
  /\ tree \in ({{File(n) : n \in S}
                  \cup {[name |-> d, kind |-> "dir"] : d \in {"project", "logs"}} \cup B :
                  S \in SUBSET {Playbook, "project/ansible.cfg", InvPath,
                                "logs/01_syntax.log", "logs/02_apply.log"},
                  B \in {{}, {File(BundlePath)}}})
  /\ archive = <<>>
  /\ earlier = <<>>
  /\ zcalls = 0

call_zip_result ==
  /\ zcalls < MaxZipCalls
  /\ zcalls' = zcalls + 1
  /\ tree' = zip_open(tree)
  /\ archive' = zip_entries(tree)
  /\ earlier' = archive
  /\ UNCHANGED <<engine_vars, request_vars, inventory_vars, generate_vars,
                 fs_vars, more_vars>>

ZipSpec == ZipInit /\ [][call_zip_result]_vars

\* ------------------------------------------------- build_inventory alone
BuildInventoryInit ==
  /\ EngineInit /\ Idle("inventory")
  /\ invIn \in {[inv_spec |-> i, ssh_key |-> k, inline_text |-> t] :
        i \in ({[kind |-> "str", fields |-> f, is_path |-> b] :
                  f \in SeqsUpTo({"", " ", "h1", " h1 ", "h2"}, MaxHosts)
                          \ {<<>>},
                  b \in BOOLEAN}
                \ {[kind |-> "str", fields |-> <<"">>, is_path |-> FALSE]})
              \cup {[kind |-> "list", items |-> l] :
                      l \in SeqsUpTo({"", " ", "h1", " h1 ", "h2", NonStr},
                                     MaxHosts)},
        k \in {None, "/home/agent/.ssh/id_rsa"},
        t \in {[given |-> FALSE], [given |-> TRUE, lines |-> <<>>],
               [given |-> TRUE, lines |-> InlineLines]}}
  /\ invOut = NoReply

\* inv_path = build_inventory(req.inventory, run_dir, req.user, req.ssh_key,
\*                            req.inventory_file_content)
call_build_inventory ==
  /\ invOut = NoReply
  /\ invOut' = build_inventory(invIn.inv_spec, "rocky", invIn.ssh_key,
                               invIn.inline_text)
  /\ UNCHANGED <<engine_vars, request_vars, invIn,
                 generate_vars, fs_vars, zip_vars, more_vars>>

BuildInventorySpec == BuildInventoryInit /\ [][call_build_inventory]_vars

\* ------------------------------------------------ the text functions alone
\* The fence strippers and the sanitizers of both services, applied to the
\* texts of up to MaxLines lines.  strip_fences_strong of kiki.py is that of
\* agentd.py, letter for letter.
TextInit ==
  /\ EngineInit /\ Idle("text")
  /\ textIn \in SeqsUpTo({Lines.fence, Lines.fence_yaml, Lines.doc_start,
                          Lines.blank, Lines.play_name, Lines.play_hint,
                          Lines.play_become, Lines.hosts, Lines.apology},
                         MaxLines)
  /\ textOut = NoReply

call_text_functions ==
  /\ textOut = NoReply
  /\ textOut' = [strong |-> strip_fences_strong(textIn),
                 runner_strong |-> runner_strip_fences_strong(textIn),
                 sanitized |-> sanitize_yaml(textIn),
                 runner_sanitized |-> runner_sanitize_yaml(textIn),
                 is_valid |-> valid(textIn)]
  /\ UNCHANGED <<early_vars, textIn, prompt_vars, log_vars, auth_vars, agent>>

TextSpec == TextInit /\ [][call_text_functions]_vars

\* ------------------------------------------------------ the system prompts
\* str.lower() on a target or on a key of the prompt file.
lower(s) ==
  CASE s = "K8S" -> "k8s"
    [] s = "Nova" -> "nova"
    [] OTHER -> s

DEFAULT_SYSTEM_PROMPTS ==
  [ansible |-> "default ansible", k8s |-> "default k8s",
   osp |-> "default osp", heat |-> "default heat"]

\* load_prompt_file: the cached map once there is one; else the string
\* values of the file's mapping, keys lowered and values stripped, and an
\* empty map for every file that gives no mapping.
load_prompt_file(cache, file) ==
  IF cache.loaded THEN cache.map
  ELSE IF file.kind # "dict" THEN <<>>
  ELSE [k \in {lower(i[1]) : i \in {j \in file.items : j[2] # NonStr}} |->
          strip((CHOOSE i \in file.items : lower(i[1]) = k)[2])]

get_system_prompt_file_first(key, env_val, file_prompts) ==
  IF key \in DOMAIN file_prompts THEN file_prompts[key]
  ELSE IF Truthy(env_val) THEN strip(env_val)
  ELSE IF key \in DOMAIN DEFAULT_SYSTEM_PROMPTS
    THEN DEFAULT_SYSTEM_PROMPTS[key]
  ELSE DEFAULT_SYSTEM_PROMPTS["ansible"]

\* get_system_prompt_for_target from its lowered key on; env_val is
\* os.environ.get of the key's variable.
get_system_prompt(key, env_val, file_prompts) ==
  IF Truthy(env_val) THEN strip(env_val)
  ELSE IF key \in DOMAIN file_prompts THEN file_prompts[key]
  ELSE IF key \in DOMAIN DEFAULT_SYSTEM_PROMPTS
    THEN DEFAULT_SYSTEM_PROMPTS[key]
  ELSE DEFAULT_SYSTEM_PROMPTS["ansible"]

PromptInit ==
  /\ EngineInit /\ Idle("prompt")
  /\ promptEnv \in {f \in [{"ansible", "k8s", "osp", "heat", "nova"} ->
                             {None, "", " ", " from env "}] :
                      /\ f["ansible"] = None /\ f["heat"] = None
                      /\ f["osp"] \in {None, ""}}
  /\ promptFile \in
       {[kind |-> "unset"], [kind |-> "unreadable"], [kind |-> "list"]}
         \cup {[kind |-> "dict", items |-> s] :
                 s \in SUBSET {<<"K8S", " from file ">>,
                               <<"Nova", "from file">>, <<"osp", " ">>,
                               <<"heat", NonStr>>}}
  /\ promptCache = [loaded |-> FALSE]
  /\ promptOut = NoReply

\* One call; the first one loads the prompt file, and the environment is
\* read again at every call.
call_get_system_prompt(target) ==
  /\ \E fp \in {load_prompt_file(promptCache, promptFile)} :
       /\ promptCache' = [loaded |-> TRUE, map |-> fp]
       /\ promptOut' = [status |-> 200, target |-> target,
                        prompt |-> get_system_prompt(
                          lower(target), promptEnv[lower(target)], fp)]
  /\ UNCHANGED <<early_vars, text_vars, promptEnv, promptFile, log_vars,
                 auth_vars, agent>>

\* The file is edited while the service runs.
edit_prompt_file(file) ==
  /\ promptCache.loaded
  /\ promptFile # file
  /\ promptFile' = file
  /\ UNCHANGED <<early_vars, text_vars, promptEnv, promptCache, promptOut,
                 log_vars, auth_vars, agent>>

PromptSpec ==
  PromptInit /\
    [][\/ \E target \in {"ansible", "K8S", "k8s", "osp", "heat", "Nova"} :
           call_get_system_prompt(target)
       \/ \E file \in {[kind |-> "unset"],
                        [kind |-> "dict",
                         items |-> {<<"K8S", " from file ">>}]} :
           edit_prompt_file(file)]_vars

\* ------------------------------------------- the logs of buffered runs
\* Variant: the log file is opened for appending.
run_appends(file, n, lines) ==
  [exists |-> TRUE, out |-> file.out \o [i \in 1..lines |-> n]]

\* _run(args, logfile) of run n: open(logfile, "wb") empties or creates the
\* file, and each line the command prints is written to it.
run(file, n, lines) == [exists |-> TRUE, out |-> [i \in 1..lines |-> n]]

LogInit ==
  /\ EngineInit /\ Idle("log")
  /\ logs = [p \in {"syntax", "apply", "idempotency"} |->
               [exists |-> FALSE, out |-> <<>>]]
  /\ logRun = [n |-> 0, verify |-> "none", phase |-> "done",
               last |-> [p \in {"syntax", "apply", "idempotency"} |-> 0]]
  /\ logBundle = {}

\* POST /api/v1/run on the workspace, up to the first command.
log_run_task(v) ==
  /\ logRun.phase = "done"
  /\ logRun.n < MaxZipCalls
  /\ logRun' = [logRun EXCEPT !.n = @ + 1, !.verify = v, !.phase = "syntax"]
  /\ UNCHANGED <<early_vars, text_vars, prompt_vars, logs, logBundle,
                 auth_vars, agent>>

\* One command of the run with what follows it: the next command, or
\* zip_result (every log file that exists, as it is) and the return.
log_phase(rc, lines) ==
  /\ logRun.phase # "done"
  /\ logs' = [logs EXCEPT ![logRun.phase] = run(@, logRun.n, lines)]
  /\ \E d \in {IF logRun.phase = "syntax" THEN after_syntax(rc, logRun.verify)
                ELSE IF logRun.phase = "apply"
                  THEN after_apply(rc, logRun.verify)
                ELSE "ok"} :
       /\ logRun' = [logRun EXCEPT
                       !.phase = IF d = "next" THEN next_phase(@) ELSE "done",
                       !.last[logRun.phase] = logRun.n]
       /\ logBundle' =
            IF d = "next" THEN logBundle
            ELSE {[name |-> logfile(p), out |-> logs'[p].out] :
                    p \in {q \in DOMAIN logs' : logs'[q].exists}}
  /\ UNCHANGED <<early_vars, text_vars, prompt_vars, auth_vars, agent>>

LogSpec ==
  LogInit /\
    [][\/ \E v \in VerifyLevels : log_run_task(v)
       \/ \E rc \in ReturnCodes, lines \in 0..MaxChunks :
            log_phase(rc, lines)]_vars

\* ------------------------------------------------- kiki_agentd: accounts
\* A token is the sequence of its characters: <<>> is the header that is
\* absent or empty, <<k>> the token of the k-th session.
\* get_user_by_token: the id of the user the session of the token belongs
\* to, 0 (None) when no session has the token.
get_user_by_token(token, ss) ==
  IF \E k \in DOMAIN ss : ss[k].token = token
    THEN ss[CHOOSE k \in DOMAIN ss : ss[k].token = token].user_id
  ELSE 0

\* Variant: a token without a session is taken for no token.
get_current_user_lenient(token, ss) ==
  [status |-> 200, user |-> get_user_by_token(token, ss)]

\* get_current_user: None (user 0) without a token, 401 for a token that
\* has no session.
get_current_user(token, ss) ==
  IF token = <<>> THEN [status |-> 200, user |-> 0]
  ELSE IF get_user_by_token(token, ss) = 0 THEN [status |-> 401, user |-> 0]
  ELSE [status |-> 200, user |-> get_user_by_token(token, ss)]

\* log_command
log_command(rows, user_id, command_type, prompt, target) ==
  Append(rows, [id |-> Len(rows) + 1, user_id |-> user_id,
                command_type |-> command_type, prompt |-> prompt,
                target |-> target])

\* Variant: the query has no WHERE clause.
get_recent_logs_of_all(rows, user_id, limit) ==
  [i \in 1..(IF Len(rows) < limit THEN Len(rows) ELSE limit) |->
     rows[Len(rows) + 1 - i]]

\* get_recent_logs: the rows of the user, the newest first, limit at most.
RECURSIVE get_recent_logs(_, _, _)
get_recent_logs(rows, user_id, limit) ==
  IF rows = <<>> \/ limit = 0 THEN <<>>
  ELSE IF rows[Len(rows)].user_id = user_id
    THEN <<rows[Len(rows)]>>
           \o get_recent_logs(SubSeq(rows, 1, Len(rows) - 1), user_id,
                              limit - 1)
  ELSE get_recent_logs(SubSeq(rows, 1, Len(rows) - 1), user_id, limit)

\* set(text.lower().split())
words(text) ==
  CASE text = "install nginx" -> {"install", "nginx"}
    [] text = "Install Redis" -> {"install", "redis"}
    [] text = "open port" -> {"open", "port"}
    [] OTHER -> {}

\* build_rag_context over the rows its query returned: a line for each row
\* that shares a word with the query, the best score first, or for all of
\* them when none does; five at most.  A line is named by the created_at of
\* its row.
build_rag_context(rows, query) ==
  [i \in 1..(IF Len(rows) < 5 THEN Len(rows) ELSE 5) |->
     (IF \E j \in DOMAIN rows : words(rows[j].prompt) \cap words(query) # {}
        THEN SelectSeq(rows, LAMBDA r :
               Cardinality(words(r.prompt) \cap words(query)) = 2)
             \o SelectSeq(rows, LAMBDA r :
                  Cardinality(words(r.prompt) \cap words(query)) = 1)
             \o SelectSeq(rows, LAMBDA r :
                  words(r.prompt) \cap words(query) = {})
      ELSE rows)[i].id]

AuthInit ==
  /\ EngineInit /\ Idle("auth")
  /\ users = <<>> /\ sessions = <<>> /\ command_logs = <<>>
  /\ upstream = [op |-> None]
  /\ answer = [op |-> None]

\* POST /api/v1/register
register(username, password) ==
  /\ upstream.op = None
  /\ IF \E k \in DOMAIN users : users[k].username = username
       THEN /\ answer' = [op |-> "register", token |-> <<>>, user |-> 0,
                          status |-> 400]
            /\ users' = users
     ELSE /\ answer' = [op |-> "register", token |-> <<>>, user |-> 0,
                        status |-> 200]
          /\ users' = Append(users, [username |-> username,
                                     password_hash |-> <<"sha256", password>>])
  /\ UNCHANGED <<early_vars, text_vars, prompt_vars, log_vars, sessions,
                 command_logs, upstream, agent>>

\* POST /api/v1/login
login(username, password) ==
  /\ upstream.op = None
  /\ Len(sessions) < MaxSessions
  /\ IF \E k \in DOMAIN users :
          /\ users[k].username = username
          /\ users[k].password_hash = <<"sha256", password>>
       THEN /\ sessions' =
                 Append(sessions,
                        [token |-> <<Len(sessions) + 1>>,
                         user_id |-> CHOOSE k \in DOMAIN users :
                                       users[k].username = username])
            /\ answer' = [op |-> "login", token |-> <<Len(sessions) + 1>>,
                          user |-> 0, status |-> 200]
     ELSE /\ sessions' = sessions
          /\ answer' = [op |-> "login", token |-> <<>>, user |-> 0,
                        status |-> 401]
  /\ UNCHANGED <<early_vars, text_vars, prompt_vars, log_vars, users,
                 command_logs, upstream, agent>>

\* GET /api/v1/history
get_history(token, limit) ==
  \E cu \in {get_current_user(token, sessions)} :
     /\ upstream.op = None
     /\ answer' = IF cu.status = 401 \/ cu.user = 0
                    THEN [op |-> "history", token |-> token, user |-> 0,
                          status |-> 401]
                  ELSE [op |-> "history", token |-> token, user |-> cu.user,
                        status |-> 200,
                        items |-> [i \in DOMAIN get_recent_logs(command_logs,
                                                                 cu.user, limit)
                                     |-> get_recent_logs(command_logs, cu.user,
                                                         limit)[i].id]]
     /\ UNCHANGED <<early_vars, text_vars, prompt_vars, log_vars, users,
                    sessions, command_logs, upstream, agent>>

\* POST /v1/chat/completions up to the upstream call; content is that of
\* the last user message of the body: "" when there is none, "<parts>"
\* when it is a list of parts.
chat_completions(token, content) ==
  \E cu \in {get_current_user(token, sessions)} :
     /\ upstream.op = None
     /\ (cu.user # 0 /\ content # "") => Len(command_logs) < MaxRows
     /\ IF cu.status = 401
          THEN /\ answer' = [op |-> "chat", token |-> token, user |-> 0,
                             prompt |-> content, status |-> 401]
               /\ UNCHANGED <<command_logs, upstream>>
        ELSE IF cu.user # 0 /\ content = "<parts>"
          THEN /\ answer' = [op |-> "chat", token |-> token, user |-> cu.user,
                             prompt |-> content, status |-> 500]
               /\ UNCHANGED <<command_logs, upstream>>
        ELSE /\ answer' = [op |-> "chat", token |-> token, user |-> cu.user,
                           prompt |-> content, status |-> 0]
             /\ command_logs' =
                  IF cu.user # 0 /\ content # ""
                    THEN log_command(command_logs, cu.user, "chat", content, None)
                  ELSE command_logs
             /\ upstream' = [op |-> "chat", user |-> cu.user,
                             prompt |-> content, target |-> None, ctx |-> <<>>]
     /\ UNCHANGED <<early_vars, text_vars, prompt_vars, log_vars, users,
                    sessions, agent>>

\* POST /api/v1/generate up to the upstream call
generate(token, prompt, target) ==
  \E cu \in {get_current_user(token, sessions)} :
     /\ upstream.op = None
     /\ cu.user # 0 => Len(command_logs) < MaxRows
     /\ IF cu.status = 401
          THEN /\ answer' = [op |-> "generate", token |-> token, user |-> 0,
                             prompt |-> prompt, status |-> 401]
               /\ upstream' = upstream
        ELSE /\ answer' = [op |-> "generate", token |-> token,
                           user |-> cu.user, prompt |-> prompt, status |-> 0]
             /\ upstream' =
                  [op |-> "generate", user |-> cu.user, prompt |-> prompt,
                   target |-> target,
                   ctx |-> IF cu.user = 0 THEN <<>>
                           ELSE build_rag_context(
                                  get_recent_logs(command_logs, cu.user, 50),
                                  prompt)]
     /\ UNCHANGED <<early_vars, text_vars, prompt_vars, log_vars, users,
                    sessions, command_logs, agent>>

\* The upstream call returns or fails, and the handler ends.
upstream_returns(ok) ==
  /\ upstream.op # None
  /\ upstream' = [op |-> None]
  /\ answer' = [answer EXCEPT
                  !.status = IF ok THEN 200
                             ELSE IF upstream.op = "chat" THEN 502 ELSE 500]
  /\ command_logs' =
       IF ok /\ upstream.op = "generate" /\ upstream.user # 0
         THEN log_command(command_logs, upstream.user, "generate",
                          upstream.prompt, upstream.target)
       ELSE command_logs
  /\ UNCHANGED <<early_vars, text_vars, prompt_vars, log_vars, users,
                 sessions, agent>>

AuthSpec ==
  AuthInit /\
    [][\/ \E username \in {"alice", "bob"} : register(username, "pw")
       \/ \E username \in {"alice", "bob"}, password \in {"pw", "guess"} :
            login(username, password)
       \/ \E token \in {<<>>} \cup {<<k>> : k \in 1..MaxSessions} :
            \/ \E limit \in {1, 20} : get_history(token, limit)
            \/ \E content \in {"", "install nginx", "<parts>"} :
                 chat_completions(token, content)
            \/ \E prompt \in {"Install Redis", "open port"} :
                 generate(token, prompt, "ansible")
       \/ \E ok \in BOOLEAN : upstream_returns(ok)]_vars

\* ------------------------------------------------------ the playbook agent
\* Variant: the return at the last attempt comes one attempt late.
exhausted_late(attempt, max_attempts) == attempt > max_attempts + 1

\* if attempt > max_attempts: return, on the counter just incremented
exhausted(attempt, max_attempts) == attempt > max_attempts

\* A call of the agent and what it gave.
Call(op, ok) == [op |-> op, ok |-> ok]

\* run_task up to the syntax check: draft_playbook and validate_yaml.
agent_draft(verify, max_attempts, ok) ==
  /\ agent.pc = "start"
  /\ agent' = [pc |-> IF ok THEN "syntax" ELSE "end", verify |-> verify,
               max_attempts |-> max_attempts, attempt |-> 0,
               calls |-> <<Call("draft", ok)>>]
  /\ UNCHANGED <<early_vars, text_vars, prompt_vars, log_vars, auth_vars>>

\* run_syntax_check, and fix_playbook when it failed at level syntax or all.
agent_syntax(syn_ok) ==
  /\ agent.pc = "syntax"
  /\ agent' = [agent EXCEPT
                 !.pc = "dry",
                 !.calls = @ \o <<Call("syntax", syn_ok)>>
                             \o IF ~syn_ok /\ agent.verify \in {"syntax", "all"}
                                  THEN <<Call("fix", TRUE)>> ELSE <<>>]
  /\ UNCHANGED <<early_vars, text_vars, prompt_vars, log_vars, auth_vars>>

\* run_check_mode, and fix_playbook when it failed at level dry or all; the
\* loop counter is set.
agent_dry_run(dry_ok) ==
  /\ agent.pc = "dry"
  /\ agent' = [agent EXCEPT
                 !.pc = "loop",
                 !.attempt = 1,
                 !.calls = @ \o <<Call("dry", dry_ok)>>
                             \o IF ~dry_ok /\ agent.verify \in {"dry", "all"}
                                  THEN <<Call("fix", TRUE)>> ELSE <<>>]
  /\ UNCHANGED <<early_vars, text_vars, prompt_vars, log_vars, auth_vars>>

\* The head of the loop and one pass through its body: run_playbook, then
\* break, or return at the last attempt, or fix_playbook and validate_yaml
\* (ok_val), which returns or lets the loop go on.
agent_attempt(ok_run, ok_val) ==
  /\ agent.pc = "loop"
  /\ agent' =
       IF ~(agent.attempt <= agent.max_attempts)
         THEN [agent EXCEPT !.pc = "idempotency"]
       ELSE IF ok_run
         THEN [agent EXCEPT !.pc = "idempotency",
                            !.calls = Append(@, Call("run_playbook", TRUE))]
       ELSE IF exhausted(agent.attempt + 1, agent.max_attempts)
         THEN [agent EXCEPT !.pc = "end", !.attempt = @ + 1,
                            !.calls = Append(@, Call("run_playbook", FALSE))]
       ELSE [agent EXCEPT !.pc = IF ok_val THEN "loop" ELSE "end",
                          !.attempt = @ + 1,
                          !.calls = @ \o <<Call("run_playbook", FALSE),
                                           Call("fix", ok_val)>>]
  /\ UNCHANGED <<early_vars, text_vars, prompt_vars, log_vars, auth_vars>>

\* run_idempotency_check, after the loop.
agent_idempotency(idem_ok) ==
  /\ agent.pc = "idempotency"
  /\ agent' = [agent EXCEPT !.pc = "end",
                            !.calls = Append(@, Call("idempotency", idem_ok))]
  /\ UNCHANGED <<early_vars, text_vars, prompt_vars, log_vars, auth_vars>>

AgentInit ==
  /\ EngineInit /\ Idle("agent")
  /\ agent = [pc |-> "start"]

AgentSpec ==
  AgentInit
  /\ [][\/ \E verify \in {"none", "syntax", "dry", "all"},
              max_attempts \in 0..MaxAttempts, ok \in BOOLEAN :
            agent_draft(verify, max_attempts, ok)
        \/ \E syn_ok \in BOOLEAN : agent_syntax(syn_ok)
        \/ \E dry_ok \in BOOLEAN : agent_dry_run(dry_ok)
        \/ \E ok_run \in BOOLEAN, ok_val \in BOOLEAN :
            agent_attempt(ok_run, ok_val)
        \/ \E idem_ok \in BOOLEAN : agent_idempotency(idem_ok)]_vars

\* ------------------------------------------------------- derived views
\* The phases of the commands the current run has invoked, in order.
CmdPhases == [i \in 1..Len(cmds) |-> PhaseOfCmd(cmds[i])]

Invoked(p) == \E i \in 1..Len(cmds) : PhaseOfCmd(cmds[i]) = p

IsSummary(r) == r.type = "summary"

\* The phase summaries the current run has reported so far: the "summary"
\* of the buffered response, or the summary records of the stream.
Summaries ==
  IF req.engine = "ansible"
    THEN (IF resp = NoResp THEN <<>> ELSE <<resp.summary>>)
    ELSE SelectSeq(stream, IsSummary)

SummaryPhases == [i \in 1..Len(Summaries) |-> Summaries[i].phase]

PhaseIdx(p) == CHOOSE i \in 1..Len(Phases) : Phases[i] = p

\* The run has reported its outcome completely: the buffered handler has
\* returned, or the stream has been consumed to its end.
Terminal == pc = "done"

\* ---------------------------------------------------------------- claims

\* C1: in both engines, for every verification level and every combination
\* of return codes, an apply command is invoked only in a run whose
\* syntax-check command has returned zero.
C1_NoApplyAfterSyntaxFailure ==
  \A i \in 1..Len(cmds) :
    PhaseOfCmd(cmds[i]) = "apply" =>
      ("syntax" \in DOMAIN rcOf /\ rcOf["syntax"] = 0)

C1_Witness_SyntaxFailedAtAll ==
  /\ Terminal /\ req.verify = "all"
  /\ "syntax" \in DOMAIN rcOf /\ rcOf["syntax"] # 0
  /\ CmdPhases = <<"syntax">>

\* C2: in both engines the check/diff command is invoked only if the
\* requested level is "all" and the syntax and apply phases of the same run
\* have both returned zero.
C2_IdempotencyOnlyAtAllAfterSuccess ==
  \A i \in 1..Len(cmds) :
    PhaseOfCmd(cmds[i]) = "idempotency" =>
      /\ req.verify = "all"
      /\ "syntax" \in DOMAIN rcOf /\ rcOf["syntax"] = 0
      /\ "apply" \in DOMAIN rcOf /\ rcOf["apply"] = 0

C2_Witness_IdempotencyInvoked ==
  /\ Invoked("idempotency") /\ "idempotency" \in DOMAIN rcOf
  /\ req.engine = "runner"

\* C3 as stated: a run at level "none" invokes no external command and
\* reports no phase outcome.
C3_Original_NoneSkipsExecution ==
  req.verify = "none" => (cmds = <<>> /\ Summaries = <<>>)

\* C3 amended: a run at level "none" is executed; it invokes syntax-check
\* and, when that returns zero, apply, never check/diff, and its result
\* reports a phase outcome: the failed syntax phase or the apply phase.
C3_NoneRunsSyntaxThenApply ==
  req.verify = "none" =>
    /\ ~Invoked("idempotency")
    /\ Terminal =>
         /\ "syntax" \in DOMAIN rcOf
         /\ CmdPhases = (IF rcOf["syntax"] = 0 THEN <<"syntax", "apply">>
                         ELSE <<"syntax">>)
         /\ SummaryPhases = (IF rcOf["syntax"] = 0 THEN <<"apply">>
                             ELSE <<"syntax">>)

C3_Witness_NoneApplied ==
  /\ Terminal /\ req.verify = "none"
  /\ Invoked("apply") /\ "apply" \in DOMAIN rcOf

\* C4: the commands one run invokes form a prefix of
\* <syntax-check, apply, check/diff>.
C4_CommandsArePrefixOfPhases ==
  /\ Len(CmdPhases) <= Len(Phases)
  /\ \A i \in 1..Len(CmdPhases) : CmdPhases[i] = Phases[i]

C4_Witness_AllThreeInvoked == Terminal /\ CmdPhases = Phases

\* C5: a run that has reached a terminal outcome has archived the workspace
\* after its last phase finished and before reporting completion: the
\* buffered response carries the bundle path, the consumed stream ends with
\* the bundle record.
C5_TerminalRunIsArchived ==
  Terminal =>
    /\ BundlePath \in files
    /\ trace = CmdPhases \o <<"zip", "respond">>
    /\ req.engine = "ansible" => (resp # NoResp /\ resp.bundle = BundlePath)
    /\ req.engine = "runner" =>
         (stream # <<>> /\ stream[Len(stream)] = bundle_record(BundlePath))

C5_Witness_FailedApplyArchived ==
  /\ Terminal /\ "apply" \in DOMAIN rcOf /\ rcOf["apply"] # 0
  /\ BundlePath \in files

\* C6: on the streaming path, once the consumer has disconnected (here:
\* after it has received at least one record) the run still goes on to its
\* end and the workspace is archived.
C6_DisconnectStillArchives ==
  (req.engine = "runner" /\ ~connected /\ stream # <<>>)
    ~> (pc \in {"bundled", "done"})

\* C7: in the record sequence of a stream, no event of a phase follows that
\* phase's summary, no event of an earlier phase follows a record of a later
\* phase, and the consumed stream ends with the end marker followed by the
\* one bundle record.
C7_StreamOrdering ==
  req.engine = "runner" =>
    /\ \A i, j \in 1..Len(stream) :
         (/\ i < j
          /\ stream[i].type \in {"event", "summary"}
          /\ stream[j].type = "event") =>
           /\ PhaseIdx(stream[i].phase) <= PhaseIdx(stream[j].phase)
           /\ ~(stream[i].type = "summary" /\ stream[i].phase = stream[j].phase)
    /\ \A i \in 1..Len(stream) :
         stream[i].type \in {"end", "bundle"} =>
           \A j \in 1..Len(stream) : j > i => stream[j].type = "bundle"
    /\ Terminal =>
         /\ Len(stream) >= 2
         /\ stream[Len(stream)].type = "bundle"
         /\ stream[Len(stream) - 1].type = "end"
         /\ \A i \in 1..(Len(stream) - 1) : stream[i].type # "bundle"

C7_Witness_EventsOfTwoPhases ==
  /\ Terminal /\ req.engine = "runner"
  /\ \E i, j \in 1..Len(stream) :
       /\ i < j
       /\ stream[i] = event_record("syntax")
       /\ stream[j] = event_record("apply")

\* C8 as stated: a run reports one summary for each phase it invoked, in
\* order (three summaries at level "all" when all phases return zero).
C8_Original_SummaryPerPhase ==
  Terminal => SummaryPhases = CmdPhases

\* C8 amended: a run reports exactly one phase summary, that of the last
\* phase it invoked; in the stream it follows every event record and no
\* summary is emitted between phases.
C8_OneSummaryOfLastPhase ==
  /\ Len(Summaries) <= 1
  /\ Terminal =>
       /\ cmds # <<>>
       /\ SummaryPhases = <<CmdPhases[Len(cmds)]>>
  /\ req.engine = "runner" =>
       \A i, j \in 1..Len(stream) :
         (i < j /\ stream[i].type = "summary") => stream[j].type # "event"

C8_Witness_AllPhasesOneSummary ==
  /\ Terminal /\ req.verify = "all" /\ CmdPhases = Phases
  /\ \A p \in DOMAIN rcOf : rcOf[p] = 0
  /\ SummaryPhases = <<"idempotency">>

\* C9: in every reported phase summary the failed flag is true exactly when
\* that phase's command returned non-zero, whatever the changed count.
C9_FailedIffNonZeroRc ==
  \A i \in 1..Len(Summaries) :
    /\ Summaries[i].phase \in DOMAIN rcOf
    /\ Summaries[i].failed = (rcOf[Summaries[i].phase] # 0)

C9_Witness_ChangedButNotFailed ==
  \E i \in 1..Len(stream) :
    /\ stream[i].type = "summary" /\ stream[i].phase = "idempotency"
    /\ stream[i].changed > 0 /\ ~stream[i].failed

\* C10: a supplied host-limit or tag filter is passed to the apply and the
\* check/diff commands and not to the syntax-check command.
C10_FiltersOnApplyAndIdempotencyOnly ==
  \A i \in 1..Len(cmds) :
    /\ Truthy(req.limit) =>
         (HasArg(cmds[i].args, "--limit") <=> PhaseOfCmd(cmds[i]) # "syntax")
    /\ Truthy(req.tags) =>
         (HasArg(cmds[i].args, "--tags") <=> PhaseOfCmd(cmds[i]) # "syntax")

\* --------------------------------------------------- claims: inventory

\* The hosts a host specification supplies: its non-blank string entries.
SuppliedHosts(inv_spec) ==
  {strip(e) : e \in {x \in {entries_of(inv_spec)[i] :
                              i \in 1..Len(entries_of(inv_spec))} :
                       x # NonStr /\ strip(x) # ""}}

\* C15: from a host list (string or list form) and no literal inventory
\* text, the synthesized inventory holds every supplied host exactly once in
\* the [all] group, also when the list repeats a host name.
C15_EveryHostOnceInAll ==
  (/\ (invOut # NoReply) /\ ~TruthyText(invIn.inline_text)
   /\ ~(invIn.inv_spec.kind = "str" /\ invIn.inv_spec.is_path)
   /\ SuppliedHosts(invIn.inv_spec) # {}) =>
    /\ invOut.ok /\ invOut.written
    /\ LET all == group_hosts(invOut.text, <<"[all]">>, FALSE)
       IN \A h \in SuppliedHosts(invIn.inv_spec) :
            Cardinality({i \in 1..Len(all) : all[i] = h}) = 1

\* C16 as stated: a successful build_inventory either wrote the literal text
\* verbatim or wrote the inventory synthesized from the host list; in both
\* cases the run uses inventory.ini of the workspace.
C16_Original_TwoOutcomes ==
  ((invOut # NoReply) /\ invOut.ok) =>
    /\ invOut.written /\ invOut.path = InvPath
    /\ TruthyText(invIn.inline_text) => invOut.text = invIn.inline_text.lines
    /\ ~TruthyText(invIn.inline_text) =>
         group_hosts(invOut.text, <<"[all]">>, FALSE)
           = hosts_of(entries_of(invIn.inv_spec))

\* C16 amended: a successful build_inventory has three outcomes.  Literal
\* text, when supplied and non-empty, is written verbatim to inventory.ini
\* and the host specification is ignored; otherwise a string that names an
\* existing path is used as the inventory itself and nothing is written;
\* otherwise the inventory synthesized from the host list is written to
\* inventory.ini.
C16_ThreeOutcomes ==
  ((invOut # NoReply) /\ invOut.ok) =>
    IF TruthyText(invIn.inline_text)
      THEN /\ invOut.written /\ invOut.path = InvPath
           /\ invOut.text = invIn.inline_text.lines
    ELSE IF invIn.inv_spec.kind = "str" /\ invIn.inv_spec.is_path
      THEN ~invOut.written /\ invOut.path = ResolvedPath
    ELSE /\ invOut.written /\ invOut.path = InvPath
         /\ group_hosts(invOut.text, <<"[all]">>, FALSE)
              = hosts_of(entries_of(invIn.inv_spec))
         /\ group_hosts(invOut.text, <<"[webserver]">>, FALSE)
              = hosts_of(entries_of(invIn.inv_spec))

C16_Witness_LiteralOverPath ==
  /\ (invOut # NoReply) /\ invOut.ok
  /\ TruthyText(invIn.inline_text)
  /\ invIn.inv_spec.kind = "str" /\ invIn.inv_spec.is_path
  /\ invOut.text = InlineLines

\* ---------------------------------------------------- claims: requests
\* C12: a run request or an archive retrieval for a task_id without
\* workspace directory is answered "not found", and the step that answers it
\* creates no file or directory and invokes no command.
C12_NotFoundBeforeSideEffects ==
  [][ /\ (rreq' # rreq /\ run_dir(rreq'.task) \notin dirs) =>
           /\ reply'.status = 404 /\ reply'.detail = "task_id not found"
           /\ pc' = "rejected" /\ cmds' = <<>>
           /\ UNCHANGED <<files, dirs>>
      /\ (dl' # dl /\ run_dir(dl'.task) \notin dirs) =>
           /\ dl'.status = 404 /\ dl'.detail = "task not found"
           /\ UNCHANGED <<files, dirs, cmds>> ]_vars

C12_Witness_BothNotFound ==
  /\ pc = "rejected" /\ rreq.n = 1 /\ rreq.task = "t2" /\ reply.status = 404
  /\ dl # NoReply /\ dl.task = "t2" /\ dl.status = 404

\* C13: whatever the order of run requests and retrievals on a workspace,
\* a retrieval made while a run on it has not completed is answered "not
\* ready", and the archive is returned only when no run is in progress.
C13_NotReadyWhileRunning ==
  (dl # NoReply /\ dl.task = "t1" /\ dl.at = "invoke") =>
    (dl.status = 404 /\ dl.detail = "bundle not ready")

\* C14: a run request whose host specification supplies no host and that
\* carries no literal inventory text is answered with a validation failure
\* by a step that invokes no command and writes no file.
C14_EmptyInventoryRejected ==
  [][ ( /\ rreq' # rreq
        /\ run_dir(rreq'.task) \in dirs /\ ymls(rreq'.task, files) # {}
        /\ hosts_of(entries_of(rreq'.inventory)) = <<>>
        /\ ~TruthyText(rreq'.inventory_file_content) ) =>
      ( /\ reply'.status = 400
        /\ pc' = "rejected" /\ cmds' = <<>>
        /\ UNCHANGED <<files, dirs>> ) ]_vars

\* ---------------------------------------------------- claims: generate
\* Playbook files a generate request has written.
WrittenBy(g) == {p \in pbs : p.by = g}
Raised(g) == gpc[g] = "done" /\ llm_out[g].raised

\* C11: a generate request writes a playbook only with a text that passes
\* the validity check; a completion that is only prose, or that the
\* sanitizer cannot turn into a valid text, is answered 422 and leaves no
\* playbook file.
C11_OnlyValidPlaybooksWritten ==
  \A g \in DOMAIN gpc :
    (gpc[g] = "done" /\ ~llm_out[g].raised) =>
      /\ \A p \in WrittenBy(g) : valid(p.text)
      /\ ~valid(generated_text(greq[g], llm_out[g].content)) =>
           (greply[g].status = 422 /\ WrittenBy(g) = {})

\* C17: a generate request calls the language model at most once; when the
\* call raises, the request is answered with an error that carries the
\* upstream detail, and the request writes no playbook file.
C17_OneCallNoRetry ==
  \A g \in DOMAIN gpc :
    /\ llm_calls[g] <= 1
    /\ Raised(g) =>
         /\ llm_calls[g] = 1
         /\ greply[g].status = 500
         /\ greply[g].detail[Len(greply[g].detail)] = llm_out[g].error
         /\ WrittenBy(g) = {}

C17_Witness_CallRaised ==
  \E g \in DOMAIN gpc : Raised(g) /\ greply[g].status = 500

\* C19: two generate requests never hold the same run identifier, so neither
\* works in the workspace of the other.
C19_DistinctRunIds ==
  \A g, h \in DOMAIN gpc :
    (g # h /\ gpc[g] # "idle" /\ gpc[h] # "idle") => gid[g] # gid[h]

\* ------------------------------------------------------ claims: files
\* C18: whatever the reader of a workspace input file has read is the
\* complete old content or the complete content of one writer.
C18_ReaderSeesWholeFile ==
  seen \in {<<<<"not read", 0>>>>, [i \in 1..MaxChunks |-> <<"old", i>>]}
             \cup {NewContent(w) : w \in DOMAIN wpc}

\* C20: after zip_result has returned, the archive has exactly one entry for
\* every regular file of the workspace, under its relative path, and no
\* other entry; a further call on the workspace leaves the same set of names.
C20_OneEntryPerRegularFile ==
  zcalls >= 1 =>
    /\ \A e \in tree : e.kind = "file" => CopiesIn(e.name, archive) = 1
    /\ \A n \in BagToSet(archive) : File(n) \in tree
    /\ zcalls >= 2 => BagToSet(archive) = BagToSet(earlier)

C20_Witness_ArchivedTwice ==
  /\ zcalls = 2
  /\ {File(Playbook), File(InvPath), [name |-> "logs", kind |-> "dir"]}
       \subseteq tree
  /\ CopiesIn(Playbook, archive) = 1
  /\ BagToSet(archive) = BagToSet(earlier)

\* ------------------------------------------------ claims: text functions

\* What yaml.safe_load makes of a text, a leading "---" set aside.
parsed(t) ==
  LET s == lstrip_lines(t)
  IN safe_load(IF s # <<>> /\ line_is(Head(s), "doc") THEN Tail(s) ELSE s,
               <<>>)

\* C21: for a text that already parses as a non-empty list of plays, each
\* with a recognized play key, either sanitize_yaml returns a text that
\* parses to the same plays with the same keys and values.
C21_ValidInputRoundTrip ==
  ((textOut # NoReply) /\ textOut.is_valid) =>
    /\ parsed(textOut.sanitized) = parsed(textIn)
    /\ parsed(textOut.runner_sanitized) = parsed(textIn)

\* C22: what strip_fences_strong returns holds no fence marker, and for a
\* text that is one fenced block, opened with or without a language tag, it
\* is the content between the fences.
C22_NoFenceLeftInnerContent ==
  (textOut # NoReply) =>
    /\ \A i \in DOMAIN textOut.strong : ~line_is(textOut.strong[i], "fence")
    /\ \A i \in DOMAIN textOut.runner_strong :
         ~line_is(textOut.runner_strong[i], "fence")
    /\ LET n == Len(textIn)
           inner == SubSeq(textIn, 2, n - 1)
       IN (/\ n >= 3
           /\ line_is(textIn[1], "fence") /\ line_is(textIn[n], "close")
           /\ \A i \in DOMAIN inner : ~line_is(inner[i], "fence")) =>
            /\ textOut.strong = strip_text(inner)
            /\ textOut.runner_strong = strip_text(inner)

\* C23: either sanitize_yaml returns the first of these that passes the
\* validity check: the step-2 text, the conservatively filtered text, the
\* first chunk of the filtered text between empty lines that passes; and
\* the step-2 text, unmodified, when none of them passes.
C23_FirstValidStage ==
  LET staged(text) ==
        LET text2 == strip_text(conservative(text))
            chunk == first_valid(chunks_of(text2, <<>>))
        IN IF valid(text) THEN text
           ELSE IF valid(text2) THEN text2
           ELSE IF chunk # None THEN chunk
           ELSE text
  IN ((textOut # NoReply) /\ textIn # <<>>) =>
       /\ textOut.sanitized =
            staged(cleaned(strip_text(strip_fences_strong(textIn))))
       /\ textOut.runner_sanitized =
            staged(cleaned(strip_text(strip_fences(strip_text(remove_markers(
              strip_text(runner_strip_fences_strong(textIn))))))))

\* The keys of the plays of a text.
PlayKeys(t) ==
  [i \in DOMAIN parsed(t) |->
     {item_key(Line(0, b)) : b \in parsed(t)[i]}
       \cup {map_key(Line(2, b)) : b \in parsed(t)[i]}]

\* C24 as stated: the validity check accepts a text exactly when it loads
\* as a non-empty list of mappings, each with at least one of the eleven
\* keys name, hosts, tasks, roles, become, vars, handlers, gather_facts,
\* vars_files, pre_tasks, post_tasks.
C24_Original_ElevenPlayKeys ==
  (textOut # NoReply) =>
    (textOut.is_valid <=>
       /\ PlayKeys(textIn) # <<>>
       /\ \A i \in DOMAIN PlayKeys(textIn) :
            PlayKeys(textIn)[i]
              \cap {"name", "hosts", "tasks", "roles", "become", "vars",
                    "handlers", "gather_facts", "vars_files", "pre_tasks",
                    "post_tasks"} # {})

\* C24, amended: the validity check accepts a text exactly when it loads as
\* a non-empty list of mappings, each with at least one of the four keys
\* hosts, tasks, roles, name; a play whose only key is become is refused.
C24_FourPlayKeys ==
  (textOut # NoReply) =>
    (textOut.is_valid <=>
       /\ PlayKeys(textIn) # <<>>
       /\ \A i \in DOMAIN PlayKeys(textIn) :
            PlayKeys(textIn)[i] \cap {"hosts", "tasks", "roles", "name"} # {})

C24_Witness_BecomeOnlyRefused ==
  /\ (textOut # NoReply)
  /\ textIn = <<Lines.play_name, Lines.hosts, Lines.play_become>>
  /\ ~textOut.is_valid

\* ------------------------------------------------- claims: system prompts
\* C25: get_system_prompt_for_target returns the first hit among the
\* non-empty environment override of the target, the target's entry of the
\* loaded prompt-file map and the compiled-in default of the target, and the
\* compiled-in "ansible" default for a target that is in none of the three.
C25_FirstHitWins ==
  promptOut # NoReply =>
    LET key == lower(promptOut.target)
        env_val == promptEnv[key]
        in_env == env_val \notin {None, ""}
        in_file == key \in DOMAIN promptCache.map
        in_defaults == key \in DOMAIN DEFAULT_SYSTEM_PROMPTS
    IN /\ in_env => promptOut.prompt = strip(env_val)
       /\ (~in_env /\ in_file) => promptOut.prompt = promptCache.map[key]
       /\ (~in_env /\ ~in_file /\ in_defaults)
            => promptOut.prompt = DEFAULT_SYSTEM_PROMPTS[key]
       /\ (~in_env /\ ~in_file /\ ~in_defaults)
            => promptOut.prompt = DEFAULT_SYSTEM_PROMPTS["ansible"]

\* An override wins over a file entry and a default of the same target.
C25_Witness_OverrideOverFile ==
  /\ promptOut # NoReply /\ promptOut.target = "K8S"
  /\ promptEnv["k8s"] = " from env "
  /\ "k8s" \in DOMAIN promptCache.map
  /\ promptOut.prompt = "from env"

\* ------------------------------------------- claims: logs of buffered runs
\* C26: over the buffered runs of one workspace, the log file of a phase is
\* emptied and written anew whenever the phase is invoked and is never
\* deleted, so it holds the output of the last invocation of that phase and
\* nothing else; the log of a phase the latest run did not invoke stays as an
\* earlier run left it, and the archive of a run holds every log there is,
\* those of phases the run did not invoke included.
C26_LogsOfLatestInvocation ==
  \A p \in DOMAIN logs :
    /\ logRun.last[p] # 0 => logs[p].exists
    /\ logs[p].exists =>
         /\ logRun.last[p] # 0
         /\ \A i \in DOMAIN logs[p].out : logs[p].out[i] = logRun.last[p]
    /\ (logRun.n > 0 /\ logRun.phase = "done" /\ logs[p].exists) =>
         [name |-> logfile(p), out |-> logs[p].out] \in logBundle

\* The second run stopped at the syntax check, and its archive holds the
\* apply log of the first run.
C26_Witness_StaleLogArchived ==
  /\ logRun.n = 2 /\ logRun.phase = "done"
  /\ logRun.last["syntax"] = 2 /\ logRun.last["apply"] = 1
  /\ [name |-> "logs/02_apply.log", out |-> <<1, 1>>] \in logBundle

\* ------------------------------------------- claims: kiki_agentd accounts
\* C27: a chat or generate request whose token matches no session is
\* answered 401 with no upstream call made and no row written; one without
\* a token goes to the upstream model as nobody's and writes no row, neither
\* before nor after the call.
C27_UnknownTokenRejected ==
  [][/\ (/\ upstream.op = None /\ answer' # answer
         /\ answer'.op \in {"chat", "generate"}) =>
          /\ (/\ answer'.token # <<>>
              /\ ~\E k \in DOMAIN sessions :
                    sessions[k].token = answer'.token) =>
               /\ answer'.status = 401
               /\ upstream' = upstream
               /\ command_logs' = command_logs
          /\ answer'.token = <<>> =>
               /\ upstream'.op = answer'.op
               /\ command_logs' = command_logs
     /\ (upstream.op # None /\ upstream.user = 0) =>
          command_logs' = command_logs]_vars

\* A generate request with the token of a session not opened yet, while
\* another session is open.
C27_Witness_Rejected ==
  /\ answer.op = "generate" /\ answer.status = 401
  /\ answer.token = <<2>> /\ Len(sessions) = 1
  /\ upstream.op = None

\* C28: for a user who is logged in, chat_completions writes its row and
\* then calls the upstream model, and the row stays whatever the call
\* gives; generate writes no row before the call and writes its row when,
\* and only when, the call has succeeded.
C28_ChatLogsFirstGenerateLast ==
  [][/\ (/\ upstream.op = None /\ answer' # answer
         /\ answer'.op = "chat" /\ answer'.user # 0) =>
          /\ Len(command_logs') = Len(command_logs) + 1
          /\ command_logs'[Len(command_logs')].user_id = answer'.user
          /\ command_logs'[Len(command_logs')].command_type = "chat"
          /\ upstream'.op = "chat"
     /\ upstream.op = "chat" => command_logs' = command_logs
     /\ (/\ upstream.op = None /\ answer' # answer
         /\ answer'.op = "generate") => command_logs' = command_logs
     /\ (upstream.op = "generate" /\ upstream.user # 0) =>
          IF answer'.status = 200
            THEN /\ Len(command_logs') = Len(command_logs) + 1
                 /\ command_logs'[Len(command_logs')].command_type
                      = "generate"
          ELSE command_logs' = command_logs]_vars

\* C29: whatever the users do and in whatever order, the history answered
\* to a token and the context built for a generate request hold rows of the
\* user of that token only, and a row written for one user changes neither
\* the history nor the context of another.
C29_OwnRowsOnly ==
  [][/\ (answer'.op = "history" /\ answer'.status = 200) =>
          \A i \in DOMAIN answer'.items :
            command_logs[answer'.items[i]].user_id
              = sessions[answer'.token[1]].user_id
     /\ (upstream'.op = "generate" /\ answer'.token # <<>>) =>
          \A i \in DOMAIN upstream'.ctx :
            command_logs[upstream'.ctx[i]].user_id
              = sessions[answer'.token[1]].user_id
     /\ \A k \in DOMAIN sessions :
          (/\ Len(command_logs') > Len(command_logs)
           /\ command_logs'[Len(command_logs')].user_id
                # sessions[k].user_id) =>
            /\ get_recent_logs(command_logs', sessions[k].user_id, 20)
                 = get_recent_logs(command_logs, sessions[k].user_id, 20)
            /\ \A q \in {"install nginx", "open port"} :
                 build_rag_context(
                   get_recent_logs(command_logs', sessions[k].user_id, 50), q)
                 = build_rag_context(
                     get_recent_logs(command_logs, sessions[k].user_id, 50),
                     q)]_vars

\* A user is answered a history with a row in it while the table holds a
\* row of someone else.
C29_Witness_HistoryBesideOthers ==
  /\ answer.op = "history" /\ answer.status = 200
  /\ Len(answer.items) = 1
  /\ \E i \in DOMAIN command_logs : command_logs[i].user_id # answer.user

\* ------------------------------------------------ claims: playbook agent
\* C30 as stated: with max_attempts >= 1, run_playbook is called at most
\* max_attempts times, every repair asked of the model stands between two
\* attempts (or is the last call of a run that ended on it), the
\* idempotency check comes only after an attempt that succeeded, and a run
\* whose last attempt failed or whose repair did not validate has none.
C30_Original_RepairsBetweenAttempts ==
  (agent.pc # "start" /\ agent.max_attempts >= 1) =>
    /\ Len(SelectSeq(agent.calls, LAMBDA c : c.op = "run_playbook"))
         <= agent.max_attempts
    /\ \A i \in DOMAIN agent.calls :
         agent.calls[i].op = "fix" =>
           /\ agent.calls[i - 1].op = "run_playbook"
           /\ i < Len(agent.calls) => agent.calls[i + 1].op = "run_playbook"
    /\ \A i \in DOMAIN agent.calls :
         agent.calls[i].op = "idempotency" =>
           agent.calls[i - 1] = Call("run_playbook", TRUE)
    /\ (/\ agent.pc = "end"
        /\ agent.calls[Len(agent.calls)]
             \in {Call("run_playbook", FALSE), Call("fix", FALSE)}) =>
         \A i \in DOMAIN agent.calls : agent.calls[i].op # "idempotency"

\* C30, amended: the repairs of the retry loop stand after a failed attempt
\* that was not the last one allowed, and the next attempt follows when the
\* repair validates; before the first attempt a repair is asked after a
\* failed syntax check at level syntax or all, and after a failed dry run at
\* level dry or all.  The other three parts are as stated.
C30_RepairsAfterFailedStep ==
  (agent.pc # "start" /\ agent.max_attempts >= 1) =>
    /\ Len(SelectSeq(agent.calls, LAMBDA c : c.op = "run_playbook"))
         <= agent.max_attempts
    /\ \A i \in DOMAIN agent.calls :
         agent.calls[i].op = "fix" =>
           \/ /\ agent.calls[i - 1] = Call("run_playbook", FALSE)
              /\ Len(SelectSeq(SubSeq(agent.calls, 1, i),
                               LAMBDA c : c.op = "run_playbook"))
                   < agent.max_attempts
              /\ i < Len(agent.calls) =>
                   /\ agent.calls[i].ok
                   /\ agent.calls[i + 1].op = "run_playbook"
              /\ (i = Len(agent.calls) /\ ~agent.calls[i].ok) =>
                   agent.pc = "end"
           \/ /\ agent.calls[i - 1] = Call("syntax", FALSE)
              /\ agent.verify \in {"syntax", "all"}
           \/ /\ agent.calls[i - 1] = Call("dry", FALSE)
              /\ agent.verify \in {"dry", "all"}
    /\ \A i \in DOMAIN agent.calls :
         agent.calls[i].op = "idempotency" =>
           agent.calls[i - 1] = Call("run_playbook", TRUE)
    /\ (/\ agent.pc = "end"
        /\ agent.calls[Len(agent.calls)]
             \in {Call("run_playbook", FALSE), Call("fix", FALSE)}) =>
         \A i \in DOMAIN agent.calls : agent.calls[i].op # "idempotency"

\* A run that asked for a repair before its first attempt, for another one
\* after the first attempt failed, and came to the idempotency check.
C30_Witness_RepairBeforeFirstAttempt ==
  /\ agent.pc = "end" /\ agent.max_attempts = 2
  /\ agent.calls = <<Call("draft", TRUE), Call("syntax", FALSE),
                     Call("fix", TRUE), Call("dry", TRUE),
                     Call("run_playbook", FALSE), Call("fix", TRUE),
                     Call("run_playbook", TRUE), Call("idempotency", TRUE)>>

====
